---- MODULE Spec2Model ----
(***************************************************************************)
(* Dispatch-and-resource-lifecycle runtime of the deno ops under src/:     *)
(* the networking ops (cli/ops/net.rs), the signal ops                     *)
(* (runtime/ops/signal.rs) and the subprocess ops (runtime/ops/command.rs) *)
(* acting on the resource tables of OpState, on the AsyncRefCell that      *)
(* guards each listener, socket, signal stream and child, and on the       *)
(* CancelHandle of a signal stream; the plugin ops (cli/ops/plugin.rs),    *)
(* the key and storage ops of op_crates/crypto and op_crates/webstorage,   *)
(* the bin op dispatch of core/ops_bin.rs, and the registration of the    *)
(* ops of an Extension through its middleware (core/extensions.rs) and of  *)
(* the modules of a MultiModule (core/runtime_modules.rs).                 *)
(*                                                                         *)
(* ResourceTable, AsyncRefCell and CancelHandle belong to deno_core and    *)
(* are not among the sources; they are modelled from the design document   *)
(* (sections 4.3, 4.4 and 4.5).                                            *)
(***************************************************************************)
EXTENDS Integers, Sequences, FiniteSets, TLC

\* Number of asynchronous op calls dispatched in one behaviour.
MaxOps == 3
MaxWork == 3
MaxNotifications == 3
MaxLines == 5
\* Number of op_signal_poll calls dispatched in one behaviour.
MaxPolls == 2
\* Number of asynchronous subprocess op calls dispatched in one behaviour.
MaxChildOps == 2
\* Ids of resource_table: the four of a child with three piped streams; the
\* model stops adding when they are used up.
MaxRid == 4
\* Ids that resource_table_2 hands out to op_listen before the model stops
\* adding.
MaxRid2 == 1
\* Streams that op_accept and op_connect register before the model stops
\* adding.
MaxStreams == 1
\* Signal streams that op_signal_bind registers before the model stops
\* adding.
MaxSignals == 2
\* Unix datagram sockets that op_listen registers before the model stops
\* adding.
MaxUnixSockets == 1
\* Number of bin op calls dispatched in one behaviour.
MaxBinCalls == 2
\* Largest u32 argument of a bin op call.
MaxArg == 1
\* Number of extensions of one runtime.
MaxExtensions == 2
\* Number of ops one extension declares.
MaxDeclared == 2

Ops == 1 .. MaxOps
Rids == 0 .. (MaxRid - 1)
Rids2 == 0 .. (MaxRid2 - 1)
SignalRids == 0 .. (MaxSignals - 1)

\* A resource object is named by the table that registered it and its id.
Keys == ({1} \X (Rids \cup SignalRids)) \cup ({2} \X Rids2)
NoKey == <<0, 0>>
BinCalls == 1 .. MaxBinCalls
\* The u32 values, and the payloads a call may carry: -1 is a payload that
\* does not deserialize to a u32.
U32 == 0 .. MaxArg
Payloads == {-1} \cup U32
\* Number of ops one plugin registers in deno_plugin_init.
MaxPluginOps == 1
\* Number of plugins that op_open_plugin loads.
MaxPlugins == 1
\* Number of calls of the ops that plugins registered.
MaxPluginCalls == 1
\* Number of modules given to MultiModule::new.
MaxModules == 2
\* Number of source files of one module.
MaxFiles == 2
\* Number of groups given to declare_ops_group.
MaxGroups == 2
\* The extensions, in the order in which the runtime is given them.
Extensions == 1 .. MaxExtensions
\* The op names extension e can declare: stringify!(opfn) of its k-th op.
OpName(e, k) == <<e, k>>
\* An op function: the declared op it was made from and the middlewares
\* that wrapped it, the first applied first.
OpFn(name) == [orig |-> name, wraps |-> <<>>]
\* The modules, in the order of the vector given to MultiModule::new.
Modules == 1 .. MaxModules
\* The k-th (file name, source) pair of module m.
SourcePair(m, k) == <<m, k>>

VARIABLES
  resource_table,    \* OpState.resource_table: set of [rid, kind]
  next_rid,          \* its id counter
  resource_table_2,  \* OpState.resource_table_2: set of [rid, kind]
  next_rid_2,        \* its id counter
  cell,              \* the AsyncRefCell of each resource: [holder, waiters]
  canceled,          \* resources whose CancelHandle has been triggered
  closed,            \* resources for which ResourceTable::close succeeded
  ops,               \* the asynchronous calls
  panicked,          \* an unwrap() of a sync op failed
  sync_ret,          \* the last call that returned at once: [op, rid, res]
  ext,               \* the op family registered in this runtime
  op_state,          \* RefCell<OpState>: the call holding borrow_mut, or 0
  bin,               \* the bin op calls: [mode, arg, pc, res, invoked]
  extensions,        \* each Extension: its ops and middleware_fn Options
  registrar,         \* the RcOpRegistrar in use: the OpMiddleware layers
  registry,          \* the ops registered in the runtime: <<[name, op_fn]>>
  init_ret,          \* the last init_ops call: [ext, again, res, added]
  trace,             \* what the last dispatched op ran: <<[ev, by, name]>>
  modules,           \* each BasicModule: js_files, ops, opstate_fn
  grouped,           \* the last declare_ops_group: [some, groups, v]
  multi,             \* the MultiModule: [pc, n], its children are 1 .. n
  loaded,            \* the source pairs that init_js returned
  state_inits,       \* the modules whose opstate_fn ran, in order
  rc,                \* the Rc<Library> shares held: <<holder, id, plugin>>
  unloaded,          \* the plugins whose Library was dropped
  made_by,           \* what the code of a plugin made: <<what, id, plugin>>
  child_ret,         \* the Child that op_command_spawn returned
  root_dir,          \* the entries below the root of the virtual fs
  entries,           \* VirtualDirectory::entries: the names, per directory
  files,             \* VfsBuilder::files: the blobs, in the order pushed
  current_offset,    \* VfsBuilder::current_offset
  file_offsets,      \* VfsBuilder::file_offsets: <<checksum, offset>> pairs
  vfs_file,          \* the backing file of the FileBackedVfs: [some, bytes]
  fs_ret,            \* the last call on the FileBackedVfs and its result
  contents,          \* the data each file was added with: <<path, data>>
  view_ret,          \* the last call on a PluginResourceTable and its result
  drop_log,          \* what the drops of the plugin futures destroyed, in order
  async_work_channel,           \* the work sent and not yet received
  pending_async_work,           \* NapiState::pending_async_work
  threadsafe_function_channel,  \* the notifications sent and not yet received
  active_threadsafe_functions,  \* the usize of NapiState: [top, n]
  middleware,        \* the event_loop_middleware call: [pc, scheduling, ran,
                     \* seen, work]
  middleware_ret,    \* what its last call returned: [some, v, ran, seen]
  executed,          \* how often each work sent was run, in order of sending
  processed,         \* the notifications received so far: [alive, dead]
  doc_file,          \* the File given to extract_doc_tests
  doc_ret            \* what extract_doc_tests returned: [called, ok, files]

\* The registration state, which no op writes.
boot == <<extensions, registrar, registry, init_ret, trace>>

\* The modules of core/runtime_modules.rs and their bootstrap.
mods == <<modules, grouped, multi, loaded, state_inits>>

\* The libraries of cli/ops/plugin.rs; a plugin is named by the resource id
\* of its PluginResource.
plug == <<rc, unloaded, made_by>>

\* The VfsBuilder of cli/standalone/virtual_fs.rs and the FileBackedVfs made
\* of it.
fs == <<root_dir, entries, files, current_offset, file_offsets, vfs_file,
        fs_ret, contents>>

\* The NapiState of ext/napi/lib.rs and the calls of its middleware.
napi == <<async_work_channel, pending_async_work,
          threadsafe_function_channel, active_threadsafe_functions,
          middleware, middleware_ret, executed, processed>>

\* The File of cli/tools/test/extract.rs and the pseudo test files made of
\* it.
docs == <<doc_file, doc_ret>>

\* The state apart from the modules, from the libraries, from the Child and
\* from the virtual fs.
beside_mods == <<docs, napi, plug, child_ret, fs, view_ret, drop_log>>
beside_plug == <<docs, napi, mods, child_ret, fs, view_ret, drop_log>>
beside_child == <<docs, napi, mods, plug, fs, view_ret, drop_log>>
beside_fs == <<docs, napi, mods, plug, child_ret, view_ret, drop_log>>
beside_view == <<docs, napi, mods, child_ret, fs, drop_log>>
beside_drops == <<mods, child_ret, fs, view_ret, napi, docs>>
beside_docs == <<mods, plug, child_ret, fs, view_ret, drop_log, napi>>
beside_napi == <<docs, mods, plug, child_ret, fs, view_ret, drop_log>>

\* The state outside the runtime of the ops and the registry.
apart == <<mods, plug, child_ret, fs, view_ret, drop_log, napi, docs>>

\* The state that only the ops of one family write.
env == <<ext, op_state, bin, boot, apart>>

\* The state of the ops, which no registration writes.
runtime == <<resource_table, next_rid, resource_table_2, next_rid_2, cell,
             canceled, closed, ops, panicked, sync_ret, ext, op_state, bin>>

vars == <<resource_table, next_rid, resource_table_2, next_rid_2, cell,
          canceled, closed, ops, panicked, sync_ret, env>>

\* The op families of the sources. They share no resource type (a lookup of
\* another family's resource is the lookup of an absent id), so a behaviour
\* exercises one of them: under Spec the tcp, the udp or the unixpacket
\* transport of cli/ops/net.rs, runtime/ops/signal.rs or cli/ops/plugin.rs;
\* under WebSpec the web ops of op_crates/crypto and op_crates/webstorage,
\* under CommandSpec runtime/ops/command.rs, under BinSpec core/ops_bin.rs
\* under RegistrySpec core/extensions.rs and under ModuleSpec
\* core/runtime_modules.rs.
Exts == {"tcp", "udp", "signal", "command", "plugin", "web", "bin",
         "unixpacket", "registry", "modules", "vfs", "symlinks", "dirs",
         "napi", "doc"}

tables == <<resource_table, next_rid, resource_table_2, next_rid_2>>

----------------------------------------------------------------------------
(* ResourceTable (design document 4.3)                                     *)

\* get<T>(rid): the entries with this id and this type (none: NotFound).
ResourceTable_get(table, rid, kind) ==
  {e \in table : e.rid = rid /\ e.kind = kind}

ResourceTable_has(table, rid) == \E e \in table : e.rid = rid

\* add(resource): the table with the resource registered under id `next`.
ResourceTable_add(table, next, kind) ==
  table \cup {[rid |-> next, kind |-> kind]}

\* take / close remove the entry registered under rid.
ResourceTable_remove(table, rid) == {e \in table : e.rid # rid}

----------------------------------------------------------------------------
(* AsyncRefCell (design document 4.4)                                      *)

FreeCell == [holder |-> 0, waiters |-> <<>>]

CellIsFree(c) == c.holder = 0 /\ c.waiters = <<>>

\* The cell after op o got the exclusive borrow.
CellAcquire(c, o) == [c EXCEPT !.holder = o]

\* The cell after op o was enqueued behind the other waiters.
CellEnqueue(c, o) == [c EXCEPT !.waiters = Append(@, o)]

\* The cell after its holder dropped the borrow: the first waiter is resumed.
CellRelease(c) ==
  IF c.waiters = <<>>
  THEN [c EXCEPT !.holder = 0]
  ELSE [holder |-> Head(c.waiters), waiters |-> Tail(c.waiters)]

----------------------------------------------------------------------------
\* The record of a call: the op (kind), the resource it names (key), where
\* it is suspended (pc), its result (res), what its last await yielded (obs)
\* and the id it returned (ret). busy remembers that a borrow of its
\* resource was outstanding or requested when the call was dispatched; for
\* an op_signal_poll, late remembers that its resource had been closed when
\* it was dispatched and post that it had been closed when it resolved.
\* No synchronous call has returned yet.
NoCall == [op |-> "none", rid |-> -1, res |-> "none"]

\* A synchronous call of op on rid returns res.
SyncReturn(op, rid, res) ==
  sync_ret' = [op |-> op, rid |-> rid, res |-> res]

\* An Extension made by Extension::default(): no ops, no middleware.
NoExtension == [ops |-> [some |-> FALSE, v |-> <<>>], taken |-> FALSE,
                middleware_fn |-> FALSE, wrapped |-> FALSE]

\* A module not yet made.
NoModule == [made |-> FALSE, js_files |-> [some |-> FALSE, v |-> <<>>],
             ops |-> [some |-> FALSE, v |-> <<>>], declared |-> <<>>,
             opstate_fn |-> FALSE]

NoGroups == [some |-> FALSE, groups |-> <<>>, v |-> <<>>]

NoInit == [ext |-> 0, again |-> FALSE, res |-> "none", added |-> 0]

\* No Child: op_command_spawn has not returned one. In a Child -1 is the
\* None of a stream that is not piped.
NoChild == [rid |-> -1, stdin_rid |-> -1, stdout_rid |-> -1,
            stderr_rid |-> -1]

\* No call was made on the FileBackedVfs.
\* No call was made on a PluginResourceTable.
NoView == [f |-> "none", rid |-> -1, was |-> "none",
           res |-> [type |-> "None", rid |-> -1], has |-> FALSE,
           entries |-> {}]

NoFsCall == [op |-> "none", path |-> <<>>, err |-> "none", kind |-> "none",
             resolved |-> <<>>, bytes |-> <<>>]

IdleBin == [mode |-> "none", arg |-> -1, pc |-> "idle", res |-> "none",
            invoked |-> FALSE, op |-> "none", pid |-> -1]

IdleOp == [kind |-> "none", key |-> NoKey, pc |-> "idle", res |-> "none",
           obs |-> "none", ret |-> -1, busy |-> FALSE, late |-> FALSE,
           post |-> FALSE]

\* No File: an empty text of unknown media type.
NoDocFile == [specifier |-> "", media_type |-> "Unknown", lines |-> <<>>,
              line_index |-> 0, named_exports |-> <<>>,
              default_export |-> <<>>]

\* The event_loop_middleware of ext/napi between two calls.
IdleMiddleware == [pc |-> "idle", scheduling |-> FALSE, ran |-> 0,
                   seen |-> FALSE, work |-> 0]

\* The runtime before any call: empty tables, free cells, no call in flight.
Fresh ==
  /\ resource_table = {}
  /\ next_rid = 0
  /\ resource_table_2 = {}
  /\ next_rid_2 = 0
  /\ cell = [k \in Keys |-> FreeCell]
  /\ canceled = {}
  /\ closed = {}
  /\ ops = [o \in Ops |-> IdleOp]
  /\ panicked = FALSE
  /\ sync_ret = NoCall
  /\ op_state = 0
  /\ bin = [c \in BinCalls |-> IdleBin]
  /\ registrar = <<>>
  /\ registry = <<>>
  /\ init_ret = NoInit
  /\ trace = <<>>
  /\ modules = [m \in Modules |-> NoModule]
  /\ grouped = NoGroups
  /\ multi = [pc |-> "new", n |-> 0]
  /\ loaded = <<>>
  /\ state_inits = <<>>
  /\ rc = {}
  /\ unloaded = {}
  /\ made_by = {}
  /\ child_ret = NoChild
  /\ root_dir = {}
  /\ entries = (<<>> :> <<>>)
  /\ files = <<>>
  /\ current_offset = 0
  /\ file_offsets = {}
  /\ vfs_file = [some |-> FALSE, bytes |-> <<>>]
  /\ fs_ret = NoFsCall
  /\ contents = {}
  /\ view_ret = NoView
  /\ drop_log = <<>>
  /\ async_work_channel = <<>>
  /\ pending_async_work = <<>>
  /\ threadsafe_function_channel = <<>>
  /\ active_threadsafe_functions = [top |-> FALSE, n |-> 0]
  /\ middleware = IdleMiddleware
  /\ middleware_ret = [some |-> FALSE, v |-> FALSE, ran |-> 0, seen |-> FALSE]
  /\ executed = <<>>
  /\ processed = [alive |-> 0, dead |-> 0]
  /\ doc_ret = [called |-> FALSE, ok |-> FALSE, files |-> <<>>]

\* A runtime without extensions and without a file to extract tests from.
Bare ==
  /\ Fresh
  /\ extensions = [e \in Extensions |-> NoExtension]
  /\ doc_file = NoDocFile

Init ==
  Bare /\ ext \in {"tcp", "udp", "signal", "plugin", "unixpacket"}

\* Calls are dispatched one per scheduling turn, in the order of their slots.
CanDispatch(o) ==
  /\ ops[o].pc = "idle"
  /\ \A p \in Ops : p < o => ops[p].pc # "idle"

\* The pcs at which a call owns the AsyncMut guard of its resource's cell.
HoldingPcs == {"accepting", "udp_io", "sig_recv", "child_waiting"}

Holds(o, key) == ops[o].key = key /\ ops[o].pc \in HoldingPcs

\* The pcs at which a call is enqueued for the borrow of its resource's cell.
WaitingPcs == {"udp_wait", "sig_wait", "child_queued"}

Waits(o, key) == ops[o].key = key /\ ops[o].pc \in WaitingPcs

\* Some call's exclusive borrow of the cell of `key` is outstanding or
\* requested.
Outstanding(key) == \E p \in Ops : Holds(p, key) \/ Waits(p, key)

\* A call is dispatched and polled once: it returns res (pc "done") or is
\* suspended at pc; late tells that its resource had been closed before.
Dispatched(o, kind, key, pc, res, late) ==
  ops' = [ops EXCEPT ![o] = [kind |-> kind, key |-> key, pc |-> pc,
                             res |-> res, obs |-> "none", ret |-> -1,
                             busy |-> Outstanding(key), late |-> late,
                             post |-> late /\ pc = "done"]]

\* A call returns at its first poll: res is its result.
Return(o, kind, key, res) == Dispatched(o, kind, key, "done", res, FALSE)

\* A call is suspended at pc at its first poll.
Suspend(o, kind, key, pc) == Dispatched(o, kind, key, pc, "none", FALSE)

\* A suspended call moves to pc.
Goto(o, pc) == ops' = [ops EXCEPT ![o].pc = pc]

\* A suspended call resolves with res; obs is what its last await yielded
\* and ret the resource id it returns.
Resolve(o, res, obs, ret) ==
  ops' = [ops EXCEPT ![o].pc = "done", ![o].res = res, ![o].obs = obs,
                     ![o].ret = ret]

----------------------------------------------------------------------------
(* cli/ops/net.rs                                                          *)

\* op_listen with an IP address: the permission check, then listen_tcp or
\* listen_udp, which bind and register the listener in resource_table_2.
op_listen(transport, permitted, bound) ==
  /\ ext = transport
  /\ IF permitted /\ bound /\ next_rid_2 < MaxRid2
     THEN /\ resource_table_2' =
               ResourceTable_add(resource_table_2, next_rid_2,
                 IF transport = "tcp" THEN "tcpListener" ELSE "udpSocket")
          /\ next_rid_2' = next_rid_2 + 1
     ELSE UNCHANGED <<resource_table_2, next_rid_2>>
  /\ UNCHANGED <<resource_table, next_rid, cell, canceled, closed, ops,
                 panicked, sync_ret, env>>

\* accept_tcp taking the listener without looking at the outcome of
\* try_borrow_mut.
accept_tcp_unchecked(o, rid) ==
  LET key == <<2, rid>> IN
  /\ ext = "tcp"
  /\ CanDispatch(o)
  /\ IF ResourceTable_get(resource_table_2, rid, "tcpListener") = {}
     THEN Return(o, "accept", key, "BadResource") /\ UNCHANGED cell
     ELSE /\ cell' = [cell EXCEPT ![key] = CellAcquire(@, o)]
          /\ Suspend(o, "accept", key, "accepting")
  /\ UNCHANGED <<tables, canceled, closed, panicked, sync_ret, env>>

\* accept_tcp awaiting the listener with borrow_mut() instead of failing.
accept_tcp_queues(o, rid) ==
  LET key == <<2, rid>> IN
  /\ ext = "tcp"
  /\ CanDispatch(o)
  /\ IF ResourceTable_get(resource_table_2, rid, "tcpListener") = {}
     THEN Return(o, "accept", key, "BadResource") /\ UNCHANGED cell
     ELSE IF CellIsFree(cell[key])
     THEN /\ cell' = [cell EXCEPT ![key] = CellAcquire(@, o)]
          /\ Suspend(o, "accept", key, "accepting")
     ELSE /\ cell' = [cell EXCEPT ![key] = CellEnqueue(@, o)]
          /\ Suspend(o, "accept", key, "accept_wait")
  /\ UNCHANGED <<tables, canceled, closed, panicked, sync_ret, env>>

\* accept_tcp up to its first await: the lookup in resource_table_2 and the
\* fail-fast borrow of the listener.
accept_tcp(o, rid) ==
  LET key == <<2, rid>> IN
  /\ ext = "tcp"
  /\ CanDispatch(o)
  /\ IF ResourceTable_get(resource_table_2, rid, "tcpListener") = {}
     THEN Return(o, "accept", key, "BadResource") /\ UNCHANGED cell
     ELSE IF CellIsFree(cell[key])
     THEN /\ cell' = [cell EXCEPT ![key] = CellAcquire(@, o)]
          /\ Suspend(o, "accept", key, "accepting")
     ELSE Return(o, "accept", key, "Busy") /\ UNCHANGED cell
  /\ UNCHANGED <<tables, canceled, closed, panicked, sync_ret, env>>

\* accept_tcp keeping the borrow of the listener when accept() fails.
accept_tcp_complete_leaks(o, accepted) ==
  /\ ext = "tcp"
  /\ ops[o].kind = "accept" /\ ops[o].pc = "accepting"
  /\ IF accepted
     THEN /\ next_rid < MaxStreams
          /\ cell' = [cell EXCEPT ![ops[o].key] = CellRelease(@)]
          /\ resource_table' =
               ResourceTable_add(resource_table, next_rid, "tcpStream")
          /\ next_rid' = next_rid + 1
          /\ Resolve(o, "Ok", "stream", next_rid)
     ELSE /\ Resolve(o, "Err", "error", -1)
          /\ UNCHANGED <<resource_table, next_rid, cell>>
  /\ UNCHANGED <<resource_table_2, next_rid_2, canceled, closed, panicked,
                 sync_ret, env>>

\* accept_tcp after listener.accept() resolved: an error is returned with ?,
\* a stream is registered in resource_table; the borrow is dropped on both
\* paths.
accept_tcp_complete(o, accepted) ==
  /\ ext = "tcp"
  /\ ops[o].kind = "accept" /\ ops[o].pc = "accepting"
  /\ cell' = [cell EXCEPT ![ops[o].key] = CellRelease(@)]
  /\ IF accepted
     THEN /\ next_rid < MaxStreams
          /\ resource_table' =
               ResourceTable_add(resource_table, next_rid, "tcpStream")
          /\ next_rid' = next_rid + 1
          /\ Resolve(o, "Ok", "stream", next_rid)
     ELSE /\ Resolve(o, "Err", "error", -1)
          /\ UNCHANGED <<resource_table, next_rid>>
  /\ UNCHANGED <<resource_table_2, next_rid_2, canceled, closed, panicked,
                 sync_ret, env>>

\* receive_udp up to its first suspension: the lookup in resource_table_2
\* and the suspending borrow of the socket.
receive_udp(o, rid) ==
  LET key == <<2, rid>> IN
  /\ ext = "udp"
  /\ CanDispatch(o)
  /\ IF ResourceTable_get(resource_table_2, rid, "udpSocket") = {}
     THEN Return(o, "receive", key, "BadResource") /\ UNCHANGED cell
     ELSE IF CellIsFree(cell[key])
     THEN /\ cell' = [cell EXCEPT ![key] = CellAcquire(@, o)]
          /\ Suspend(o, "receive", key, "udp_io")
     ELSE /\ cell' = [cell EXCEPT ![key] = CellEnqueue(@, o)]
          /\ Suspend(o, "receive", key, "udp_wait")
  /\ UNCHANGED <<tables, canceled, closed, panicked, sync_ret, env>>

\* op_datagram_send getting in line before the calls that already wait.
op_datagram_send_lifo(o, rid, permitted) ==
  LET key == <<2, rid>> IN
  /\ ext = "udp"
  /\ CanDispatch(o)
  /\ IF ~permitted
     THEN Return(o, "send", NoKey, "PermissionDenied") /\ UNCHANGED cell
     ELSE IF ResourceTable_get(resource_table_2, rid, "udpSocket") = {}
     THEN Return(o, "send", key, "BadResource") /\ UNCHANGED cell
     ELSE IF CellIsFree(cell[key])
     THEN /\ cell' = [cell EXCEPT ![key] = CellAcquire(@, o)]
          /\ Suspend(o, "send", key, "udp_io")
     ELSE /\ cell' = [cell EXCEPT ![key].waiters = <<o>> \o @]
          /\ Suspend(o, "send", key, "udp_wait")
  /\ UNCHANGED <<tables, canceled, closed, panicked, sync_ret, env>>

\* op_datagram_send looking the socket up before the permission check.
op_datagram_send_lookup_first(o, rid, permitted) ==
  LET key == <<2, rid>> IN
  /\ ext = "udp"
  /\ CanDispatch(o)
  /\ IF ResourceTable_get(resource_table_2, rid, "udpSocket") = {}
     THEN Return(o, "send", key, "BadResource") /\ UNCHANGED cell
     ELSE IF ~permitted
     THEN Return(o, "send", NoKey, "PermissionDenied") /\ UNCHANGED cell
     ELSE IF CellIsFree(cell[key])
     THEN /\ cell' = [cell EXCEPT ![key] = CellAcquire(@, o)]
          /\ Suspend(o, "send", key, "udp_io")
     ELSE /\ cell' = [cell EXCEPT ![key] = CellEnqueue(@, o)]
          /\ Suspend(o, "send", key, "udp_wait")
  /\ UNCHANGED <<tables, canceled, closed, panicked, sync_ret, env>>

\* op_datagram_send over udp up to its first suspension: the permission
\* check, the lookup in resource_table_2 and the suspending borrow.
op_datagram_send(o, rid, permitted) ==
  LET key == <<2, rid>> IN
  /\ ext = "udp"
  /\ CanDispatch(o)
  /\ IF ~permitted
     THEN Return(o, "send", NoKey, "PermissionDenied") /\ UNCHANGED cell
     ELSE IF ResourceTable_get(resource_table_2, rid, "udpSocket") = {}
     THEN Return(o, "send", key, "BadResource") /\ UNCHANGED cell
     ELSE IF CellIsFree(cell[key])
     THEN /\ cell' = [cell EXCEPT ![key] = CellAcquire(@, o)]
          /\ Suspend(o, "send", key, "udp_io")
     ELSE /\ cell' = [cell EXCEPT ![key] = CellEnqueue(@, o)]
          /\ Suspend(o, "send", key, "udp_wait")
  /\ UNCHANGED <<tables, canceled, closed, panicked, sync_ret, env>>

\* resource.borrow_mut().await of receive_udp and op_datagram_send resolves:
\* the call was resumed as the holder of the socket's cell.
datagram_borrowed(o) ==
  /\ ext = "udp"
  /\ ops[o].pc = "udp_wait"
  /\ cell[ops[o].key].holder = o
  /\ Goto(o, "udp_io")
  /\ UNCHANGED <<tables, cell, canceled, closed, panicked, sync_ret, env>>

\* recv_from / send_to resolved: the result is returned, the borrow dropped.
datagram_complete(o, ok) ==
  /\ ext = "udp"
  /\ ops[o].pc = "udp_io"
  /\ cell' = [cell EXCEPT ![ops[o].key] = CellRelease(@)]
  /\ Resolve(o, IF ok THEN "Ok" ELSE "Err", IF ok THEN "io" ELSE "error", -1)
  /\ UNCHANGED <<tables, canceled, closed, panicked, sync_ret, env>>

\* op_connect over tcp up to its first await: the permission check.
op_connect(o, permitted) ==
  /\ ext = "tcp"
  /\ CanDispatch(o)
  /\ IF permitted
     THEN Suspend(o, "connect", NoKey, "connecting")
     ELSE Return(o, "connect", NoKey, "PermissionDenied")
  /\ UNCHANGED <<tables, cell, canceled, closed, panicked, sync_ret, env>>

\* op_connect after TcpStream::connect resolved: the stream is registered
\* in resource_table.
op_connect_complete(o, connected) ==
  /\ ext = "tcp"
  /\ ops[o].pc = "connecting"
  /\ IF connected
     THEN /\ next_rid < MaxStreams
          /\ resource_table' =
               ResourceTable_add(resource_table, next_rid, "tcpStream")
          /\ next_rid' = next_rid + 1
          /\ Resolve(o, "Ok", "stream", next_rid)
     ELSE /\ Resolve(o, "Err", "error", -1)
          /\ UNCHANGED <<resource_table, next_rid>>
  /\ UNCHANGED <<resource_table_2, next_rid_2, cell, canceled, closed,
                 panicked, sync_ret, env>>

\* op_listen with a path and the unixpacket transport: a sync op, which the
\* dispatcher runs under OpState's borrow_mut (a RefCell borrowed by a
\* suspended call panics); then the permission checks and
\* net_unix::listen_unix_packet, which binds and registers the socket in
\* resource_table.
op_listen_unix(permitted, bound) ==
  /\ ext = "unixpacket"
  /\ ~panicked
  /\ IF op_state # 0
     THEN /\ panicked' = TRUE
          /\ SyncReturn("op_listen", -1, "panic")
          /\ UNCHANGED <<resource_table, next_rid>>
     ELSE IF permitted /\ bound /\ next_rid < MaxUnixSockets
     THEN /\ resource_table' =
               ResourceTable_add(resource_table, next_rid, "unixDatagram")
          /\ next_rid' = next_rid + 1
          /\ SyncReturn("op_listen", next_rid, "Ok")
          /\ UNCHANGED panicked
     ELSE /\ SyncReturn("op_listen", -1,
                       IF permitted THEN "Err" ELSE "PermissionDenied")
          /\ UNCHANGED <<resource_table, next_rid, panicked>>
  /\ UNCHANGED <<resource_table_2, next_rid_2, cell, canceled, closed, ops,
                 env>>

\* op_datagram_send, unixpacket transport: state.borrow() for the read
\* permission, then `let mut state = state.borrow_mut()`, which lives to the
\* end of the branch; get_mut (none: NotConnected) and socket.send_to()
\* awaited while that borrow is held. The send is ready at once or pending.
op_datagram_send_unix(o, rid, permitted, ready) ==
  LET key == <<1, rid>> IN
  /\ ext = "unixpacket"
  /\ ~panicked
  /\ CanDispatch(o)
  /\ IF op_state # 0
     THEN /\ panicked' = TRUE
          /\ Return(o, "unix_send", key, "panic")
          /\ UNCHANGED op_state
     ELSE IF ~permitted
     THEN /\ Return(o, "unix_send", key, "PermissionDenied")
          /\ UNCHANGED <<panicked, op_state>>
     ELSE IF ResourceTable_get(resource_table, rid, "unixDatagram") = {}
     THEN /\ Return(o, "unix_send", key, "NotConnected")
          /\ UNCHANGED <<panicked, op_state>>
     ELSE IF ready
     THEN /\ Return(o, "unix_send", key, "Ok")
          /\ UNCHANGED <<panicked, op_state>>
     ELSE /\ Suspend(o, "unix_send", key, "unix_sending")
          /\ op_state' = o
          /\ UNCHANGED panicked
  /\ UNCHANGED <<tables, cell, canceled, closed, sync_ret, ext, bin, boot, apart>>

\* The pending send_to of the unixpacket branch completes: the call returns
\* and drops its borrow of OpState.
op_datagram_send_unix_complete(o, ok) ==
  /\ ext = "unixpacket"
  /\ ~panicked
  /\ ops[o].pc = "unix_sending"
  /\ Resolve(o, IF ok THEN "Ok" ELSE "Err", "none", -1)
  /\ op_state' = 0
  /\ UNCHANGED <<tables, cell, canceled, closed, panicked, sync_ret, ext,
                 bin, boot, apart>>

----------------------------------------------------------------------------
(* runtime/ops/signal.rs                                                   *)

\* A close hook that leaves the CancelHandle alone.
SignalStreamResource_close_noop(key) == canceled

\* SignalStreamResource::close: the close hook triggers the CancelHandle.
SignalStreamResource_close(key) == canceled \cup {key}

\* Resource::close of a resource of this kind; only SignalStreamResource
\* overrides the default hook, which does nothing.
Resource_close(kind, key) ==
  IF kind = "signal" THEN SignalStreamResource_close(key) ELSE canceled

\* op_signal_bind: registers a signal stream with a fresh CancelHandle.
op_signal_bind ==
  /\ ext = "signal"
  /\ next_rid < MaxSignals
  /\ resource_table' = ResourceTable_add(resource_table, next_rid, "signal")
  /\ next_rid' = next_rid + 1
  /\ UNCHANGED <<resource_table_2, next_rid_2, cell, canceled, closed, ops,
                 panicked, sync_ret, env>>

\* op_signal_unbind running the close hook of a resource it leaves in the
\* table.
op_signal_unbind_keeps(rid) ==
  /\ ext = "signal"
  /\ IF ResourceTable_has(resource_table, rid)
     THEN LET e == CHOOSE x \in resource_table : x.rid = rid IN
          /\ canceled' = Resource_close(e.kind, <<1, rid>>)
          /\ closed' = closed \cup {<<1, rid>>}
          /\ SyncReturn("op_signal_unbind", rid, "Ok")
     ELSE /\ UNCHANGED <<canceled, closed>>
          /\ SyncReturn("op_signal_unbind", rid, "BadResourceId")
  /\ UNCHANGED <<tables, cell, ops, panicked, env>>

\* The match passing the cancellation on as an error.
op_signal_poll_match_err(o, item) ==
  LET r == CASE item = "signal" -> "Ok(false)"
             [] item = "end" -> "Ok(true)"
             [] item = "canceled" -> "Err"
  IN
  /\ cell' = [cell EXCEPT ![ops[o].key] = CellRelease(@)]
  /\ ops' = [ops EXCEPT ![o].pc = "done", ![o].res = r, ![o].obs = item,
                        ![o].post = ops[o].key \in closed]

\* op_signal_unbind ignoring the Option that close returns.
op_signal_unbind_silent(rid) ==
  /\ ext = "signal"
  /\ IF ResourceTable_has(resource_table, rid)
     THEN LET e == CHOOSE x \in resource_table : x.rid = rid IN
          /\ resource_table' = ResourceTable_remove(resource_table, rid)
          /\ canceled' = Resource_close(e.kind, <<1, rid>>)
          /\ closed' = closed \cup {<<1, rid>>}
     ELSE UNCHANGED <<resource_table, canceled, closed>>
  /\ SyncReturn("op_signal_unbind", rid, "Ok")
  /\ UNCHANGED <<next_rid, resource_table_2, next_rid_2, cell, ops, panicked,
                 env>>

\* op_signal_unbind: resource_table.close(rid), whatever the resource is;
\* an absent rid is bad_resource_id and changes nothing.
op_signal_unbind(rid) ==
  /\ ext = "signal"
  /\ IF ResourceTable_has(resource_table, rid)
     THEN LET e == CHOOSE x \in resource_table : x.rid = rid IN
          /\ resource_table' = ResourceTable_remove(resource_table, rid)
          /\ canceled' = Resource_close(e.kind, <<1, rid>>)
          /\ closed' = closed \cup {<<1, rid>>}
          /\ SyncReturn("op_signal_unbind", rid, "Ok")
     ELSE /\ UNCHANGED <<resource_table, canceled, closed>>
          /\ SyncReturn("op_signal_unbind", rid, "BadResourceId")
  /\ UNCHANGED <<next_rid, resource_table_2, next_rid_2, cell, ops, panicked,
                 env>>

\* The match on signal.recv().or_cancel(cancel).await: a signal is
\* Ok(false), the end of the stream and a cancellation are Ok(true); the
\* borrow of the signal is dropped as the call returns.
op_signal_poll_match(o, item) ==
  LET r == CASE item = "signal" -> "Ok(false)"
             [] item = "end" -> "Ok(true)"
             [] item = "canceled" -> "Ok(true)"
  IN
  /\ cell' = [cell EXCEPT ![ops[o].key] = CellRelease(@)]
  /\ ops' = [ops EXCEPT ![o].pc = "done", ![o].res = r, ![o].obs = item,
                        ![o].post = ops[o].key \in closed]

\* op_signal_poll up to its first suspension: the lookup in resource_table
\* and the suspending borrow of the signal stream.
op_signal_poll(o, rid) ==
  LET key == <<1, rid>> IN
  /\ ext = "signal"
  /\ CanDispatch(o)
  /\ o <= MaxPolls
  /\ IF ResourceTable_get(resource_table, rid, "signal") = {}
     THEN /\ Dispatched(o, "poll", key, "done", "BadResourceId",
                        key \in closed)
          /\ UNCHANGED cell
     ELSE IF CellIsFree(cell[key])
     THEN /\ cell' = [cell EXCEPT ![key] = CellAcquire(@, o)]
          /\ Dispatched(o, "poll", key, "sig_recv", "none", key \in closed)
     ELSE /\ cell' = [cell EXCEPT ![key] = CellEnqueue(@, o)]
          /\ Dispatched(o, "poll", key, "sig_wait", "none", key \in closed)
  /\ UNCHANGED <<tables, canceled, closed, panicked, sync_ret, env>>

\* op_signal_poll resumed as the holder of the signal's cell: the first
\* poll of recv().or_cancel(cancel) checks the CancelHandle before the
\* stream, and is pending when neither is ready.
op_signal_poll_borrowed(o) ==
  /\ ext = "signal"
  /\ ops[o].pc = "sig_wait"
  /\ cell[ops[o].key].holder = o
  /\ IF ops[o].key \in canceled
     THEN op_signal_poll_match(o, "canceled")
     ELSE Goto(o, "sig_recv") /\ UNCHANGED cell
  /\ UNCHANGED <<tables, canceled, closed, panicked, sync_ret, env>>

\* op_signal_poll woken by the CancelHandle.
op_signal_poll_canceled(o) ==
  /\ ext = "signal"
  /\ ops[o].pc = "sig_recv"
  /\ ops[o].key \in canceled
  /\ op_signal_poll_match(o, "canceled")
  /\ UNCHANGED <<tables, canceled, closed, panicked, sync_ret, env>>

\* op_signal_poll awaiting signal.recv() without or_cancel(cancel).
op_signal_poll_recv_uncancelled(o, item) ==
  /\ ext = "signal"
  /\ ops[o].pc = "sig_recv"
  /\ op_signal_poll_match(o, item)
  /\ UNCHANGED <<tables, canceled, closed, panicked, sync_ret, env>>

\* op_signal_poll woken by the stream: a signal arrived or the stream ended.
op_signal_poll_recv(o, item) ==
  /\ ext = "signal"
  /\ ops[o].pc = "sig_recv"
  /\ ops[o].key \notin canceled
  /\ op_signal_poll_match(o, item)
  /\ UNCHANGED <<tables, canceled, closed, panicked, sync_ret, env>>

----------------------------------------------------------------------------
(* runtime/ops/command.rs                                                  *)

\* op_command_spawn returning an id for a piped stderr that it does not
\* register.
op_command_spawn_drops_stderr(stdin, stdout, stderr, spawned) ==
  LET n0 == next_rid
      n1 == IF stdin THEN n0 + 1 ELSE n0
      n2 == IF stdout THEN n1 + 1 ELSE n1
      n3 == IF stderr THEN n2 + 1 ELSE n2
      t1 == IF stdin
            THEN ResourceTable_add(resource_table, n0, "childStdin")
            ELSE resource_table
      t2 == IF stdout THEN ResourceTable_add(t1, n1, "childStdout") ELSE t1
  IN
  /\ ext = "command"
  /\ next_rid = 0
  /\ IF spawned
     THEN /\ resource_table' = ResourceTable_add(t2, n3, "child")
          /\ next_rid' = n3 + 1
          /\ child_ret' = [rid |-> n3,
                           stdin_rid |-> IF stdin THEN n0 ELSE -1,
                           stdout_rid |-> IF stdout THEN n1 ELSE -1,
                           stderr_rid |-> IF stderr THEN n2 ELSE -1]
     ELSE UNCHANGED <<resource_table, next_rid, child_ret>>
  /\ UNCHANGED <<resource_table_2, next_rid_2, cell, canceled, closed, ops,
                 panicked, sync_ret, ext, op_state, bin, boot, beside_child>>

\* op_command_spawn: registers one resource per piped stream (stdin, stdout,
\* stderr, in this order) and then the child; a command that cannot be
\* created or spawned registers nothing. A behaviour follows the first
\* child that is spawned.
op_command_spawn(stdin, stdout, stderr, spawned) ==
  LET n0 == next_rid
      n1 == IF stdin THEN n0 + 1 ELSE n0
      n2 == IF stdout THEN n1 + 1 ELSE n1
      n3 == IF stderr THEN n2 + 1 ELSE n2
      t1 == IF stdin
            THEN ResourceTable_add(resource_table, n0, "childStdin")
            ELSE resource_table
      t2 == IF stdout THEN ResourceTable_add(t1, n1, "childStdout") ELSE t1
      t3 == IF stderr THEN ResourceTable_add(t2, n2, "childStderr") ELSE t2
  IN
  /\ ext = "command"
  /\ next_rid = 0
  /\ IF spawned
     THEN /\ resource_table' = ResourceTable_add(t3, n3, "child")
          /\ next_rid' = n3 + 1
          /\ child_ret' = [rid |-> n3,
                           stdin_rid |-> IF stdin THEN n0 ELSE -1,
                           stdout_rid |-> IF stdout THEN n1 ELSE -1,
                           stderr_rid |-> IF stderr THEN n2 ELSE -1]
     ELSE UNCHANGED <<resource_table, next_rid, child_ret>>
  /\ UNCHANGED <<resource_table_2, next_rid_2, cell, canceled, closed, ops,
                 panicked, sync_ret, ext, op_state, bin, boot, beside_child>>

\* op_command_child_status: get, then try_borrow_mut().unwrap() for the time
\* of try_wait.
op_command_child_status(rid) ==
  /\ ext = "command"
  /\ IF ResourceTable_get(resource_table, rid, "child") = {}
     THEN /\ SyncReturn("op_command_child_status", rid, "BadResource")
          /\ UNCHANGED panicked
     ELSE IF ~CellIsFree(cell[<<1, rid>>])
     THEN /\ SyncReturn("op_command_child_status", rid, "panic")
          /\ panicked' = TRUE
     ELSE /\ SyncReturn("op_command_child_status", rid, "Ok")
          /\ UNCHANGED panicked
  /\ UNCHANGED <<tables, cell, canceled, closed, ops, env>>

\* op_command_child_wait looking the child up with get, which leaves it in
\* resource_table.
op_command_child_wait_gets(o, rid) ==
  LET key == <<1, rid>> IN
  /\ ext = "command"
  /\ CanDispatch(o)
  /\ o <= MaxChildOps
  /\ IF ResourceTable_get(resource_table, rid, "child") = {}
     THEN /\ Return(o, "wait", key, "BadResource")
          /\ UNCHANGED cell
     ELSE IF CellIsFree(cell[key])
     THEN /\ cell' = [cell EXCEPT ![key] = CellAcquire(@, o)]
          /\ Suspend(o, "wait", key, "child_waiting")
     ELSE /\ cell' = [cell EXCEPT ![key] = CellEnqueue(@, o)]
          /\ Suspend(o, "wait", key, "child_queued")
  /\ UNCHANGED <<tables, canceled, closed, panicked, sync_ret, env>>

\* op_command_child_wait up to its first suspension: take moves the child
\* out of resource_table, then the suspending borrow.
op_command_child_wait(o, rid) ==
  LET key == <<1, rid>> IN
  /\ ext = "command"
  /\ CanDispatch(o)
  /\ o <= MaxChildOps
  /\ IF ResourceTable_get(resource_table, rid, "child") = {}
     THEN /\ Return(o, "wait", key, "BadResource")
          /\ UNCHANGED <<cell, resource_table>>
     ELSE /\ resource_table' = ResourceTable_remove(resource_table, rid)
          /\ IF CellIsFree(cell[key])
             THEN /\ cell' = [cell EXCEPT ![key] = CellAcquire(@, o)]
                  /\ Suspend(o, "wait", key, "child_waiting")
             ELSE /\ cell' = [cell EXCEPT ![key] = CellEnqueue(@, o)]
                  /\ Suspend(o, "wait", key, "child_queued")
  /\ UNCHANGED <<next_rid, resource_table_2, next_rid_2, canceled, closed,
                 panicked, sync_ret, env>>

\* child.wait() resolved: the status or the error is returned and the
\* borrow of the child is dropped.
op_command_child_wait_complete(o, ok) ==
  /\ ext = "command"
  /\ ops[o].pc = "child_waiting"
  /\ cell' = [cell EXCEPT ![ops[o].key] = CellRelease(@)]
  /\ Resolve(o, IF ok THEN "Ok" ELSE "Err", IF ok THEN "exit" ELSE "error",
             -1)
  /\ UNCHANGED <<tables, canceled, closed, panicked, sync_ret, env>>

\* The record of an op_command_child_output call that took the child out
\* of resource_table: suspended at pc or returned res.
OutputTook(o, key, pc, res) ==
  ops' = [ops EXCEPT ![o] = [IdleOp EXCEPT !.kind = "output", !.key = key,
                                           !.pc = pc, !.res = res,
                                           !.obs = "taken"]]

\* A read of a child's stdout or stderr stream (runtime/ops/io.rs, design
\* document 4.3 and 4.4): get gives the call a reference to the stream
\* resource, which it keeps while the read is suspended, and the suspending
\* borrow of the stream's cell serializes the reads of one stream.
op_read(o, rid) ==
  LET key == <<1, rid>> IN
  /\ ext = "command"
  /\ CanDispatch(o)
  /\ IF \A e \in resource_table :
          e.rid = rid => e.kind \notin {"childStdout", "childStderr"}
     THEN /\ Return(o, "read", key, "BadResource")
          /\ UNCHANGED cell
     ELSE IF CellIsFree(cell[key])
     THEN /\ cell' = [cell EXCEPT ![key] = CellAcquire(@, o)]
          /\ Suspend(o, "read", key, "stream_reading")
     ELSE /\ cell' = [cell EXCEPT ![key] = CellEnqueue(@, o)]
          /\ Suspend(o, "read", key, "stream_queued")
  /\ UNCHANGED <<tables, canceled, closed, panicked, sync_ret, env>>

\* The borrow of the stream's cell resolves: the read was resumed as its
\* holder.
op_read_borrowed(o) ==
  /\ ext = "command"
  /\ ops[o].pc = "stream_queued"
  /\ cell[ops[o].key].holder = o
  /\ Goto(o, "stream_reading")
  /\ UNCHANGED <<tables, cell, canceled, closed, panicked, sync_ret, env>>

\* The read resolved: the result is returned, the borrow and the reference
\* are dropped.
op_read_complete(o, ok) ==
  /\ ext = "command"
  /\ ops[o].pc = "stream_reading"
  /\ cell' = [cell EXCEPT ![ops[o].key] = CellRelease(@)]
  /\ Resolve(o, IF ok THEN "Ok" ELSE "Err", IF ok THEN "io" ELSE "error", -1)
  /\ UNCHANGED <<tables, canceled, closed, panicked, sync_ret, env>>

\* Some suspended call holds a reference (an Rc) to the resource of key:
\* a wait, which holds the child it took, or a read, which holds the
\* stream that get gave it.
Referenced(key) ==
  \E p \in Ops :
    /\ ops[p].key = key
    /\ ops[p].pc \in {"child_waiting", "child_queued", "stream_reading",
                      "stream_queued"}

\* Rc::try_unwrap(resource).unwrap(): Ok when the Rc that take gave is the
\* only reference to the resource, a panic otherwise.
Rc_try_unwrap(key) == ~Referenced(key)

\* op_command_child_output up to its suspension: take moves the child out
\* of resource_table and try_unwrap unwraps it, then the same for the
\* stdout and the stderr resource if their rids are given (-1: not given),
\* each take returning early with ? when it fails and each unwrap panicking
\* when it fails; then wait_with_output().await.
op_command_child_output(o, rid, stdout_rid, stderr_rid) ==
  LET key == <<1, rid>>
      t1 == ResourceTable_remove(resource_table, rid)
      t2 == IF stdout_rid # -1 THEN ResourceTable_remove(t1, stdout_rid)
            ELSE t1
      t3 == IF stderr_rid # -1 THEN ResourceTable_remove(t2, stderr_rid)
            ELSE t2
  IN
  /\ ext = "command"
  /\ CanDispatch(o)
  /\ o <= MaxChildOps
  /\ IF ResourceTable_get(resource_table, rid, "child") = {}
     THEN /\ Return(o, "output", key, "BadResource")
          /\ UNCHANGED <<resource_table, panicked>>
     ELSE IF ~Rc_try_unwrap(key)
     THEN /\ resource_table' = t1
          /\ OutputTook(o, key, "done", "panic")
          /\ panicked' = TRUE
     ELSE IF /\ stdout_rid # -1
             /\ ResourceTable_get(t1, stdout_rid, "childStdout") = {}
     THEN /\ resource_table' = t1
          /\ OutputTook(o, key, "done", "BadResource")
          /\ UNCHANGED panicked
     ELSE IF stdout_rid # -1 /\ ~Rc_try_unwrap(<<1, stdout_rid>>)
     THEN /\ resource_table' = t2
          /\ OutputTook(o, key, "done", "panic")
          /\ panicked' = TRUE
     ELSE IF /\ stderr_rid # -1
             /\ ResourceTable_get(t2, stderr_rid, "childStderr") = {}
     THEN /\ resource_table' = t2
          /\ OutputTook(o, key, "done", "BadResource")
          /\ UNCHANGED panicked
     ELSE IF stderr_rid # -1 /\ ~Rc_try_unwrap(<<1, stderr_rid>>)
     THEN /\ resource_table' = t3
          /\ OutputTook(o, key, "done", "panic")
          /\ panicked' = TRUE
     ELSE /\ resource_table' = t3
          /\ OutputTook(o, key, "output_waiting", "none")
          /\ UNCHANGED panicked
  /\ UNCHANGED <<next_rid, resource_table_2, next_rid_2, cell, canceled,
                 closed, sync_ret, env>>

\* wait_with_output() resolved: the output or the error is returned.
op_command_child_output_complete(o, ok) ==
  /\ ext = "command"
  /\ ops[o].pc = "output_waiting"
  /\ ops' = [ops EXCEPT ![o].pc = "done",
                        ![o].res = IF ok THEN "Ok" ELSE "Err"]
  /\ UNCHANGED <<tables, cell, canceled, closed, panicked, sync_ret, env>>

\* op_close of the runtime, called on the rid of a child or on a rid that
\* is not live: resource_table.close(rid); an absent rid is bad_resource_id.
op_close(rid) ==
  /\ ext = "command"
  /\ \A x \in resource_table : x.rid = rid => x.kind = "child"
  /\ IF ResourceTable_has(resource_table, rid)
     THEN LET e == CHOOSE x \in resource_table : x.rid = rid IN
          /\ resource_table' = ResourceTable_remove(resource_table, rid)
          /\ canceled' = Resource_close(e.kind, <<1, rid>>)
          /\ closed' = closed \cup {<<1, rid>>}
          /\ SyncReturn("op_close", rid, "Ok")
     ELSE /\ UNCHANGED <<resource_table, canceled, closed>>
          /\ SyncReturn("op_close", rid, "BadResourceId")
  /\ UNCHANGED <<next_rid, resource_table_2, next_rid_2, cell, ops, panicked,
                 env>>

----------------------------------------------------------------------------
(* cli/ops/plugin.rs                                                       *)

\* The plugins whose shares are among `shares`.
LibrariesOf(shares) == {sh[3] : sh \in shares}

\* Rc<Library> shares are dropped: a Library whose last share goes is
\* dropped with it, which unloads the plugin.
Rc_drop(dropped) ==
  /\ rc' = rc \ dropped
  /\ unloaded' = unloaded \cup
       (LibrariesOf(dropped) \ LibrariesOf(rc \ dropped))

\* The plugins that op_open_plugin has loaded: the handle of each is shared
\* or was dropped.
Opened == LibrariesOf(rc) \cup unloaded

\* A RefResource made without a clone of the library handle.
RefResource_without_lib(rid, p) == {}

\* The RefResource that PluginResourceTable::add wraps around the resource
\* registered as rid: its _lib is a clone of the handle of plugin p.
RefResource(rid, p) == {<<"RefResource", rid, p>>}

\* PluginInterface::register_op called n times by the initializer of plugin
\* p: each call registers a closure that owns a clone of the handle.
PluginInterface_register_op(p, n, reg) ==
  reg \o [k \in 1 .. n |-> [name |-> OpName(p, k),
                             op_fn |-> OpFn(OpName(p, k))]]

\* op_open_plugin: the permission check and Library::open, then the plugin
\* resource is registered and deno_plugin_init runs: it registers n ops and,
\* if adds, a resource through the resource table of the interface. The
\* handles of the op and of the interface are dropped at the return.
op_open_plugin(permitted, opened, n, adds) ==
  /\ ext = "plugin"
  /\ next_rid < MaxRid
  /\ adds => next_rid + 1 < MaxRid
  /\ permitted /\ opened => Cardinality(Opened) < MaxPlugins
  /\ IF permitted /\ opened
     THEN LET p == next_rid
              added == IF adds THEN {p + 1} ELSE {}
              with_plugin == ResourceTable_add(resource_table, p, "plugin")
          IN
          /\ resource_table' =
               IF adds
               THEN ResourceTable_add(with_plugin, p + 1, "RefResource")
               ELSE with_plugin
          /\ next_rid' = p + 1 + Cardinality(added)
          /\ registry' = PluginInterface_register_op(p, n, registry)
          /\ rc' = rc \cup {<<"PluginResource", p, p>>}
                      \cup {<<"op", Len(registry) + k, p>> : k \in 1 .. n}
                      \cup UNION {RefResource(r, p) : r \in added}
          /\ made_by' = made_by \cup {<<"resource", r, p>> : r \in added}
          /\ SyncReturn("op_open_plugin", p, "Ok")
     ELSE /\ n = 0 /\ ~adds
          /\ UNCHANGED <<resource_table, next_rid, registry, rc, made_by>>
          /\ SyncReturn("op_open_plugin", -1, "Err")
  /\ UNCHANGED <<resource_table_2, next_rid_2, cell, canceled, closed, ops,
                 panicked, ext, op_state, bin, extensions, registrar,
                 init_ret, trace, beside_plug, unloaded>>

\* The plugins that have registered an op: their code runs when the op is
\* dispatched.
Callable == {registry[i].name[1] : i \in 1 .. Len(registry)}

\* PluginResourceTable::add, called by the code of a loaded plugin: the
\* resource is registered inside a RefResource.
PluginResourceTable_add(p) ==
  /\ ext = "plugin"
  /\ p \in Callable
  /\ next_rid < MaxRid
  /\ resource_table' =
       ResourceTable_add(resource_table, next_rid, "RefResource")
  /\ next_rid' = next_rid + 1
  /\ rc' = rc \cup RefResource(next_rid, p)
  /\ made_by' = made_by \cup {<<"resource", next_rid, p>>}
  /\ SyncReturn("PluginResourceTable_add", next_rid, "Ok")
  /\ UNCHANGED <<resource_table_2, next_rid_2, cell, canceled, closed, ops,
                 panicked, ext, op_state, bin, boot, beside_plug, unloaded>>

\* PluginResourceTable::close, called by the code of a loaded plugin: the
\* Option of resource_table.close(rid) is handed back. The resource is
\* dropped, and with it the share of the handle it owns.
PluginResourceTable_close(rid) ==
  /\ ext = "plugin"
  /\ next_rid > 0
  /\ IF ResourceTable_has(resource_table, rid)
     THEN LET e == CHOOSE x \in resource_table : x.rid = rid IN
          /\ resource_table' = ResourceTable_remove(resource_table, rid)
          /\ canceled' = Resource_close(e.kind, <<1, rid>>)
          /\ closed' = closed \cup {<<1, rid>>}
          /\ Rc_drop({sh \in rc : /\ sh[2] = rid
                                  /\ sh[1] \in {"PluginResource",
                                                "RefResource"}})
          /\ SyncReturn("PluginResourceTable_close", rid, "Some")
     ELSE /\ UNCHANGED <<resource_table, canceled, closed, rc, unloaded>>
          /\ SyncReturn("PluginResourceTable_close", rid, "None")
  /\ UNCHANGED <<next_rid, resource_table_2, next_rid_2, cell, ops, panicked,
                 ext, op_state, bin, boot, beside_plug, made_by>>

\* The closure that PluginInterface::register_op registered as op i is
\* dispatched: a synchronous result is handed back as it is, the future of
\* an asynchronous one inside a PluginOpAsyncFuture, which owns a clone of
\* the handle.
plugin_op(o, i, async) ==
  LET p == registry[i].name[1] IN
  /\ ext = "plugin"
  /\ o <= MaxPluginCalls
  /\ CanDispatch(o)
  /\ i \in 1 .. Len(registry)
  /\ IF async
     THEN /\ Suspend(o, "plugin_op", NoKey, "plugin_pending")
          /\ rc' = rc \cup {<<"PluginOpAsyncFuture", o, p>>}
          /\ made_by' = made_by \cup {<<"future", o, p>>}
     ELSE /\ Return(o, "plugin_op", NoKey, "Ok")
          /\ UNCHANGED <<rc, made_by>>
  /\ UNCHANGED <<tables, cell, canceled, closed, panicked, sync_ret, ext,
                 op_state, bin, boot, beside_plug, unloaded>>

\* A PluginOpAsyncFuture dropped with its fields in the order of their
\* declaration reversed: the share of the handle, then the future.
PluginOpAsyncFuture_drop_lib_first(o) ==
  << <<"_plugin_lib", o>>, <<"fut", o>> >>

\* The drop of the PluginOpAsyncFuture of call o: Drop::drop takes the
\* wrapped future out of fut, which destroys it; then the fields are
\* dropped, fut (by now None) and _plugin_lib, the share of the handle.
PluginOpAsyncFuture_drop(o) ==
  << <<"fut", o>>, <<"_plugin_lib", o>> >>

\* The PluginOpAsyncFuture of call o is dropped: what it owned is destroyed
\* in the order of its drop, and the future is no more.
FutureDropped(o) ==
  /\ drop_log' = drop_log \o PluginOpAsyncFuture_drop(o)
  /\ Rc_drop({sh \in rc : sh[1] = "PluginOpAsyncFuture" /\ sh[2] = o})
  /\ made_by' = {m \in made_by : ~(m[1] = "future" /\ m[2] = o)}

\* The future of a plugin op completes: poll hands the output of the
\* wrapped future back and the PluginOpAsyncFuture is dropped.
plugin_op_complete(o) ==
  /\ ext = "plugin"
  /\ ops[o].pc = "plugin_pending"
  /\ Resolve(o, "Ok", "none", -1)
  /\ FutureDropped(o)
  /\ UNCHANGED <<tables, cell, canceled, closed, panicked, sync_ret, ext,
                 op_state, bin, boot, beside_drops>>

\* The future of a plugin op is abandoned while it is pending (the isolate
\* drops its pending ops): the PluginOpAsyncFuture is dropped without
\* having yielded.
plugin_op_abandon(o) ==
  /\ ext = "plugin"
  /\ ops[o].pc = "plugin_pending"
  /\ Resolve(o, "Abandoned", "none", -1)
  /\ FutureDropped(o)
  /\ UNCHANGED <<tables, cell, canceled, closed, panicked, sync_ret, ext,
                 op_state, bin, boot, beside_drops>>

\* The None of an Option<&dyn Resource> or Option<Box<dyn Resource>>.
None == [type |-> "None", rid |-> -1]

\* The resource that the code of a plugin hands to PluginResourceTable::add
\* and that is registered as rid: a value of a type of the plugin.
Inner(rid) == [type |-> "PluginData", rid |-> rid]

\* The Box<dyn Resource> that resource_table holds for an entry: a
\* RefResource around the resource of a plugin, or the resource of an op.
Boxed(e) == [type |-> e.kind, rid |-> e.rid]

\* The kind of the entry registered as rid, "none" when there is none.
KindOf(rid) ==
  IF ResourceTable_has(resource_table, rid)
  THEN (CHOOSE e \in resource_table : e.rid = rid).kind
  ELSE "none"

\* r.inner.borrow(): the resource inside the Box, through Borrow<dyn
\* Resource> for Box<dyn Resource>.
Borrow_borrow(inner) == inner

\* &mut r.inner, a &mut Box<dyn Resource>, where a &mut dyn Resource is
\* expected: every 'static type is a Resource, the Box too, and the unsized
\* coercion is tried before the dereference, so the reference is to the Box
\* as a resource: its type is Box<dyn Resource>, not the type of the
\* resource inside.
Unsize(inner) == [type |-> "Box<dyn Resource>", rid |-> inner.rid]

\* A call on the PluginResourceTable made by the code of a loaded plugin
\* returns the resource res (has: the bool has, entries: the entries); was
\* is the kind of the entry of rid before the call.
ViewReturn(f, rid, res, has, listed) ==
  /\ ext = "plugin"
  /\ Callable # {}
  /\ view_ret' = [f |-> f, rid |-> rid, was |-> KindOf(rid), res |-> res,
                  has |-> has, entries |-> listed]

\* PluginResourceTable::has and ::entries: those of resource_table.
PluginResourceTable_has(rid) ==
  /\ ViewReturn("has", rid, None, ResourceTable_has(resource_table, rid),
                {})
  /\ UNCHANGED <<runtime, boot, plug, beside_view>>

PluginResourceTable_entries ==
  /\ ViewReturn("entries", -1, None, FALSE, resource_table)
  /\ UNCHANGED <<runtime, boot, plug, beside_view>>

\* PluginResourceTable::get_boxed: the resource inside a RefResource, any
\* other resource as it is.
PluginResourceTable_get_boxed(rid) ==
  LET found == {e \in resource_table : e.rid = rid} IN
  /\ ViewReturn("get_boxed", rid,
       IF found = {} THEN None
       ELSE LET resource == Boxed(CHOOSE e \in found : TRUE) IN
            IF resource.type = "RefResource"
            THEN Borrow_borrow(Inner(rid)) ELSE resource,
       FALSE, {})
  /\ UNCHANGED <<runtime, boot, plug, beside_view>>

\* PluginResourceTable::get_mut_boxed: &mut of the field inner of a
\* RefResource, any other resource as it is.
PluginResourceTable_get_mut_boxed(rid) ==
  LET found == {e \in resource_table : e.rid = rid} IN
  /\ ViewReturn("get_mut_boxed", rid,
       IF found = {} THEN None
       ELSE LET resource == Boxed(CHOOSE e \in found : TRUE) IN
            IF resource.type = "RefResource"
            THEN Unsize(Inner(rid)) ELSE resource,
       FALSE, {})
  /\ UNCHANGED <<runtime, boot, plug, beside_view>>

\* PluginResourceTable::remove_boxed: the entry is removed from
\* resource_table without its close hook; of a RefResource the resource
\* inside is returned and the rest, the share of the handle, is dropped;
\* any other resource is returned as it is, with what it owns.
PluginResourceTable_remove_boxed(rid) ==
  LET found == {e \in resource_table : e.rid = rid} IN
  /\ ViewReturn("remove_boxed", rid,
       IF found = {} THEN None
       ELSE LET resource == Boxed(CHOOSE e \in found : TRUE) IN
            IF resource.type = "RefResource"
            THEN Inner(rid) ELSE resource,
       FALSE, {})
  /\ resource_table' = ResourceTable_remove(resource_table, rid)
  /\ Rc_drop({sh \in rc : sh[1] = "RefResource" /\ sh[2] = rid})
  /\ made_by' = {m \in made_by : ~(m[1] = "resource" /\ m[2] = rid)}
  /\ UNCHANGED <<next_rid, resource_table_2, next_rid_2, cell, canceled,
                 closed, ops, panicked, sync_ret, ext, op_state, bin, boot,
                 beside_view>>

----------------------------------------------------------------------------
(* op_crates/crypto/lib.rs, op_crates/webstorage/lib.rs                    *)

\* The values of key::Algorithm that the ops tell apart; "Other" stands for
\* every algorithm they do not support.
Algorithms ==
  {"RsassaPkcs1v15", "RsaPss", "RsaOaep", "Ecdh", "Ecdsa", "Hmac", "Other"}

\* The resource type op_webcrypto_sign_key looks up for an algorithm
\* ("none": the algorithm is unsupported).
SignKeyType(algorithm) ==
  CASE algorithm \in {"RsassaPkcs1v15", "RsaOaep"} -> "RSAPrivateCryptoKey"
    [] algorithm = "Ecdsa" -> "ECDSACryptoKey"
    [] algorithm = "Hmac" -> "HMACKey"
    [] OTHER -> "none"

\* op_webcrypto_generate_key: it holds OpState from its start to its return
\* and never awaits. Missing arguments, a failing generation and an
\* unsupported algorithm return before any add; an RSA or ECDH key pair
\* registers the private and then the public key, ECDSA and HMAC one key.
op_webcrypto_generate_key(algorithm, generated) ==
  LET pair == algorithm \in {"RsassaPkcs1v15", "RsaPss", "RsaOaep", "Ecdh"}
      rsa == algorithm # "Ecdh"
      priv == IF rsa THEN "RSAPrivateCryptoKey" ELSE "ECDHPrivateKey"
      pub == IF rsa THEN "RSAPublicCryptoKey" ELSE "ECDHPublicKey"
      single == IF algorithm = "Ecdsa" THEN "ECDSACryptoKey" ELSE "HMACKey"
  IN
  /\ ext = "web"
  /\ next_rid + 2 <= MaxRid
  /\ IF algorithm = "Other" \/ ~generated
     THEN /\ UNCHANGED <<resource_table, next_rid>>
          /\ SyncReturn("op_webcrypto_generate_key", -1, "Err")
     ELSE IF pair
     THEN /\ resource_table' =
               ResourceTable_add(
                 ResourceTable_add(resource_table, next_rid, priv),
                 next_rid + 1, pub)
          /\ next_rid' = next_rid + 2
          /\ SyncReturn("op_webcrypto_generate_key", next_rid, "Ok")
     ELSE /\ resource_table' =
               ResourceTable_add(resource_table, next_rid, single)
          /\ next_rid' = next_rid + 1
          /\ SyncReturn("op_webcrypto_generate_key", next_rid, "Ok")
  /\ UNCHANGED <<resource_table_2, next_rid_2, cell, canceled, closed, ops,
                 panicked, env>>

\* op_webcrypto_sign_key looking the rid up whatever the type of its
\* resource.
op_webcrypto_sign_key_untyped(rid, algorithm, signed) ==
  /\ ext = "web"
  /\ IF SignKeyType(algorithm) = "none"
     THEN SyncReturn("op_webcrypto_sign_key", rid, "Unsupported")
     ELSE IF ~ResourceTable_has(resource_table, rid)
     THEN SyncReturn("op_webcrypto_sign_key", rid, "BadResourceId")
     ELSE SyncReturn("op_webcrypto_sign_key", rid,
                     IF signed \/ algorithm = "Hmac" THEN "Ok" ELSE "Err")
  /\ UNCHANGED <<tables, cell, canceled, closed, ops, panicked, env>>

\* op_webcrypto_sign_key: get::<CryptoKeyResource<T>>(rid) with the T of the
\* algorithm, bad_resource_id when there is none, then the signature (which
\* ring::hmac::sign always yields); it never awaits.
op_webcrypto_sign_key(rid, algorithm, signed) ==
  /\ ext = "web"
  /\ IF SignKeyType(algorithm) = "none"
     THEN SyncReturn("op_webcrypto_sign_key", rid, "Unsupported")
     ELSE IF ResourceTable_get(resource_table, rid,
                               SignKeyType(algorithm)) = {}
     THEN SyncReturn("op_webcrypto_sign_key", rid, "BadResourceId")
     ELSE SyncReturn("op_webcrypto_sign_key", rid,
                     IF signed \/ algorithm = "Hmac" THEN "Ok" ELSE "Err")
  /\ UNCHANGED <<tables, cell, canceled, closed, ops, panicked, env>>

\* op_webstorage_open: the connection is opened (unwrap) and registered.
op_webstorage_open(opened) ==
  /\ ext = "web"
  /\ next_rid < MaxRid
  /\ IF opened
     THEN /\ resource_table' =
               ResourceTable_add(resource_table, next_rid, "webStorage")
          /\ next_rid' = next_rid + 1
          /\ SyncReturn("op_webstorage_open", next_rid, "Ok")
          /\ UNCHANGED panicked
     ELSE /\ UNCHANGED <<resource_table, next_rid>>
          /\ SyncReturn("op_webstorage_open", -1, "panic")
          /\ panicked' = TRUE
  /\ UNCHANGED <<resource_table_2, next_rid_2, cell, canceled, closed, ops,
                 env>>

\* op_webstorage_length, and with the same lookup op_webstorage_key, _set,
\* _get, _remove and _clear: get::<WebStorageConnectionResource>(rid),
\* bad_resource_id when there is none, then the statement.
op_webstorage_length(rid) ==
  /\ ext = "web"
  /\ IF ResourceTable_get(resource_table, rid, "webStorage") = {}
     THEN SyncReturn("op_webstorage_length", rid, "BadResourceId")
     ELSE SyncReturn("op_webstorage_length", rid, "Ok")
  /\ UNCHANGED <<tables, cell, canceled, closed, ops, panicked, env>>

----------------------------------------------------------------------------
(* core/ops_bin.rs                                                         *)

\* What op_fn may yield: an error, a u32 or a byte vector.
OpFnResults == {"Err", "Value", "Vector"}

\* serialize_bin_result: an Err is serialized as an error result, a u32 as a
\* value result and a vector is handed back as OpResponse::Buffer.
serialize_bin_result(result) ==
  CASE result = "Err" -> "Err"
    [] result = "Value" -> "Value"
    [] result = "Vector" -> "Buffer"

\* The promise id that the dispatcher hands to call c.
PromiseId(c) == c

\* The promise id in the response that serialize_bin_result makes: pid (-1
\* is None) goes to serialize_op_result with an Err or a u32, and an
\* OpResponse::Buffer is made of the vector alone.
response_pid(pid, result) == IF result = "Vector" THEN -1 ELSE pid

\* The next call of the dispatch loop, which a panic has not ended.
CanCall(c) ==
  /\ ext = "bin"
  /\ ~panicked
  /\ bin[c].pc = "idle"
  /\ \A d \in BinCalls : d < c => bin[d].pc # "idle"

\* The op made by bin_op_sync: payload.deserialize().unwrap(), the buffer
\* assert, then op_fn under state.borrow_mut() and its serialized result.
bin_op_sync(c, payload, buf, result) ==
  /\ CanCall(c)
  /\ IF payload \notin U32
     THEN /\ panicked' = TRUE
          /\ bin' = [bin EXCEPT ![c] = [mode |-> "sync", arg |-> payload,
                        pc |-> "panic", res |-> "none", invoked |-> FALSE,
                        op |-> "none", pid |-> -1]]
     ELSE IF ~buf
     THEN /\ bin' = [bin EXCEPT ![c] = [mode |-> "sync", arg |-> payload,
                        pc |-> "done", res |-> "Err", invoked |-> FALSE,
                        op |-> "Sync", pid |-> response_pid(-1, "Err")]]
          /\ UNCHANGED panicked
     ELSE /\ bin' = [bin EXCEPT ![c] = [mode |-> "sync", arg |-> payload,
                        pc |-> "done", res |-> serialize_bin_result(result),
                        invoked |-> TRUE, op |-> "Sync",
                        pid |-> response_pid(-1, result)]]
          /\ UNCHANGED panicked
  /\ UNCHANGED <<tables, cell, canceled, closed, ops, sync_ret, ext,
                 op_state, boot, apart>>

\* The op made by bin_op_async: the same deserialization and buffer assert
\* (its failure is an Op::Sync error result made with the pid None), then
\* op_fn is called and its future returned as Op::Async.
bin_op_async(c, payload, buf) ==
  /\ CanCall(c)
  /\ IF payload \notin U32
     THEN /\ panicked' = TRUE
          /\ bin' = [bin EXCEPT ![c] = [mode |-> "async", arg |-> payload,
                        pc |-> "panic", res |-> "none", invoked |-> FALSE,
                        op |-> "none", pid |-> -1]]
     ELSE IF ~buf
     THEN /\ bin' = [bin EXCEPT ![c] = [mode |-> "async", arg |-> payload,
                        pc |-> "done", res |-> "Err", invoked |-> FALSE,
                        op |-> "Sync", pid |-> response_pid(-1, "Err")]]
          /\ UNCHANGED panicked
     ELSE /\ bin' = [bin EXCEPT ![c] = [mode |-> "async", arg |-> payload,
                        pc |-> "pending", res |-> "none", invoked |-> TRUE,
                        op |-> "Async", pid |-> -1]]
          /\ UNCHANGED panicked
  /\ UNCHANGED <<tables, cell, canceled, closed, ops, sync_ret, ext,
                 op_state, boot, apart>>

\* The future of a bin_op_async call completes: its result is serialized
\* for the promise of the call.
bin_op_async_complete(c, result) ==
  /\ ext = "bin"
  /\ ~panicked
  /\ bin[c].pc = "pending"
  /\ bin' = [bin EXCEPT ![c].pc = "done",
                        ![c].res = serialize_bin_result(result),
                        ![c].pid = response_pid(PromiseId(c), result)]
  /\ UNCHANGED <<tables, cell, canceled, closed, ops, panicked, sync_ret,
                 ext, op_state, boot, apart>>

----------------------------------------------------------------------------
(* core/extensions.rs                                                      *)

\* A middleware_fn that wraps op_fn twice.
middleware_fn_twice(e, name, op_fn) ==
  [op_fn EXCEPT !.wraps = Append(Append(@, e), e)]

\* The middleware_fn of extension e: a new op function around op_fn.
middleware_fn(e, name, op_fn) == [op_fn EXCEPT !.wraps = Append(@, e)]

\* OpMiddleware::register_op delegating under a name of its own.
OpMiddleware_register_op_renames(e, name, op_fn) ==
  [name |-> <<0, e>>, op_fn |-> middleware_fn(e, name, op_fn)]

\* OpMiddleware::register_op: what it passes to the registrar it wraps,
\* middleware_fn(name, op_fn) under the same name.
OpMiddleware_register_op(e, name, op_fn) ==
  [name |-> name, op_fn |-> middleware_fn(e, name, op_fn)]

\* register_op of the runtime: binds the name to the op function.
JsRuntime_register_op(name, op_fn, reg) ==
  Append(reg, [name |-> name, op_fn |-> op_fn])

\* register_op on a registrar: chain lists the OpMiddleware layers around
\* the runtime, the last made (the outermost registrar) last. Each layer
\* delegates to the registrar it wraps, down to the runtime.
RECURSIVE register_op(_, _, _, _)
register_op(chain, name, op_fn, reg) ==
  IF chain = <<>>
  THEN JsRuntime_register_op(name, op_fn, reg)
  ELSE LET r == OpMiddleware_register_op(chain[Len(chain)], name, op_fn) IN
       register_op(SubSeq(chain, 1, Len(chain) - 1), r.name, r.op_fn, reg)

\* The for loop of init_ops: the declared pairs registered in order.
RECURSIVE register_all(_, _, _)
register_all(chain, declared, reg) ==
  IF declared = <<>>
  THEN reg
  ELSE register_all(chain, Tail(declared),
                    register_op(chain, Head(declared),
                                OpFn(Head(declared)), reg))

\* Calling an op function: each wrapper runs its pre-logic, the function
\* it wraps and its post-logic; the declared op runs at the centre.
RECURSIVE Call(_, _)
Call(orig, wraps) ==
  IF wraps = <<>>
  THEN <<[ev |-> "call", by |-> 0, name |-> orig]>>
  ELSE LET e == wraps[Len(wraps)] IN
       <<[ev |-> "pre", by |-> e, name |-> orig]>>
         \o Call(orig, SubSeq(wraps, 1, Len(wraps) - 1))
         \o <<[ev |-> "post", by |-> e, name |-> orig]>>

\* The bootstrap takes the extensions in the order of their declaration:
\* the registrar that an extension wraps is the one the extensions before
\* it produced.
InDeclarationOrder(e) ==
  \A d \in Extensions : d < e => extensions[d].wrapped

\* init_registrar putting the new OpMiddleware next to the runtime, inside
\* the layers made before.
Extension_init_registrar_inner(e) ==
  /\ ext = "registry"
  /\ InDeclarationOrder(e)
  /\ registrar' = IF extensions[e].middleware_fn
                  THEN <<e>> \o registrar
                  ELSE registrar
  /\ extensions' = [extensions EXCEPT ![e].middleware_fn = FALSE,
                                      ![e].wrapped = TRUE]
  /\ UNCHANGED <<runtime, apart, registry, init_ret, trace>>

\* Extension::init_registrar: middleware_fn.take(); Some: a new OpMiddleware
\* around registrar, None: registrar itself.
Extension_init_registrar(e) ==
  /\ ext = "registry"
  /\ InDeclarationOrder(e)
  /\ registrar' = IF extensions[e].middleware_fn
                  THEN Append(registrar, e)
                  ELSE registrar
  /\ extensions' = [extensions EXCEPT ![e].middleware_fn = FALSE,
                                      ![e].wrapped = TRUE]
  /\ UNCHANGED <<runtime, apart, registry, init_ret, trace>>

\* An Option that is read and left as it is.
Option_as_ref(opt) == opt

\* Option::take on self.ops: None is left in its place.
Option_take(opt) == [some |-> FALSE, v |-> <<>>]

\* Extension::init_ops (and BasicModule::init_ops, the same code), which is
\* called after init_registrar: self.ops.take(); Some: every pair is
\* registered in order; Ok(()) in both cases.
Extension_init_ops(e) ==
  /\ ext = "registry"
  /\ extensions[e].wrapped
  /\ registry' = IF extensions[e].ops.some
                 THEN register_all(registrar, extensions[e].ops.v, registry)
                 ELSE registry
  /\ init_ret' = [ext |-> e, again |-> extensions[e].taken, res |-> "Ok",
                  added |-> IF extensions[e].ops.some
                            THEN Len(extensions[e].ops.v) ELSE 0]
  /\ extensions' = [extensions EXCEPT
                      ![e].ops = Option_take(@),
                      ![e].taken = @ \/ extensions[e].ops.some]
  /\ UNCHANGED <<runtime, apart, registrar, trace>>

\* The registration phase is over: every extension has wrapped the
\* registrar and given its ops.
Bootstrapped ==
  \A e \in Extensions : extensions[e].wrapped /\ ~extensions[e].ops.some

\* The op registered i-th is dispatched, which is after the registration
\* phase: its op function is called.
dispatch(i) ==
  /\ ext = "registry"
  /\ Bootstrapped
  /\ i \in 1 .. Len(registry)
  /\ trace' = Call(registry[i].op_fn.orig, registry[i].op_fn.wraps)
  /\ UNCHANGED <<runtime, apart, extensions, registrar, registry,
                 init_ret>>

----------------------------------------------------------------------------
(* cli/standalone/virtual_fs.rs                                            *)

\* The names of the entries of the root directory and of the entries of its
\* sub-directories, and the paths below the root, as their components.
RootNames == {"a", "b", "c"}
SubNames == {"x"}
Paths == {<<n>> : n \in RootNames} \cup
         {<<n, m>> : n \in RootNames, m \in SubNames}

\* The contents of the files: UTF-8 text, as its bytes.
Data == {<<>>, <<0>>, <<1>>, <<0, 1>>}

\* util::checksum::gen: the SHA-256 digest of the data, which tells any two
\* contents apart.
checksum(data) == <<"sha256", data>>

\* The entries: a VirtualDirectory, VirtualFile or VirtualSymlink, each with
\* the path of the directories it is nested in and its name.
VirtualDirectory(path) ==
  [path |-> path, kind |-> "Dir", offset |-> 0, len |-> 0,
   dest_parts |-> <<>>]

VirtualFile(path, offset, len) ==
  [path |-> path, kind |-> "File", offset |-> offset, len |-> len,
   dest_parts |-> <<>>]

VirtualSymlink(path, dest_parts) ==
  [path |-> path, kind |-> "Symlink", offset |-> 0, len |-> 0,
   dest_parts |-> dest_parts]

\* No entry: the Err of a binary search.
NoEntry ==
  [path |-> <<>>, kind |-> "none", offset |-> 0, len |-> 0,
   dest_parts |-> <<>>]

\* The names in the order of str::cmp, and e.name().cmp(&name).
NameOrder == <<"a", "b", "c", "x", "y">>

cmp(a, b) ==
  LET rank(n) == CHOOSE i \in 1 .. Len(NameOrder) : NameOrder[i] = n IN
  IF rank(a) < rank(b) THEN "Less"
  ELSE IF rank(a) = rank(b) THEN "Equal" ELSE "Greater"

\* entries.binary_search_by(|e| e.name().cmp(&name)) on the names of a
\* directory: Ok(index) of a name found or Err(insert_index), the indices
\* counted from 0. The search halves the range left .. right; on names
\* that are not sorted it may miss a name that is there.
RECURSIVE bisect(_, _, _, _)
bisect(names, name, left, right) ==
  IF left >= right THEN [ok |-> FALSE, index |-> left] ELSE
  LET mid == left + ((right - left) \div 2)
      c == cmp(names[mid + 1], name)
  IN
  IF c = "Equal" THEN [ok |-> TRUE, index |-> mid]
  ELSE IF c = "Less" THEN bisect(names, name, mid + 1, right)
  ELSE bisect(names, name, left, mid)

binary_search_by(names, name) == bisect(names, name, 0, Len(names))

\* Vec::push, which an insertion at the index found must not be taken for.
Vec_push(names, index, name) == Append(names, name)

\* entries.insert(insert_index, entry): the entry is put at the index,
\* counted from 0, and the entries from there on move up.
Vec_insert(names, index, name) ==
  SubSeq(names, 1, index) \o <<name>> \o SubSeq(names, index + 1, Len(names))

\* The binary search of `entries` of the directory at path dir for name:
\* the entry of that name or NoEntry.
binary_search(dir, name) ==
  LET found == {e \in root_dir : e.path = Append(dir, name)} IN
  IF dir \in DOMAIN entries /\ binary_search_by(entries[dir], name).ok
       /\ found # {}
  THEN CHOOSE e \in found : TRUE
  ELSE NoEntry

\* The path without its last component: Path::parent.
parent(path) == SubSeq(path, 1, Len(path) - 1)

\* The prefixes of a path that name directories above its last component.
Ancestors(path) == {SubSeq(path, 1, k) : k \in 1 .. (Len(path) - 1)}

\* VfsBuilder::add_dir: the directories of the path that are missing are
\* inserted.
VfsBuilder_add_dir(dir, path) ==
  dir \cup {VirtualDirectory(SubSeq(path, 1, k)) :
              k \in {j \in 1 .. Len(path) :
                       \A e \in dir : e.path # SubSeq(path, 1, j)}}

\* The loop of VfsBuilder::add_dir over the components of the path from the
\* k-th on, on the names of the directories: a name that the binary search
\* does not find is inserted at the index the search gave, with no entries
\* of its own.
RECURSIVE add_dir_entries(_, _, _)
add_dir_entries(names, path, k) ==
  IF k > Len(path) THEN names ELSE
  LET current_dir == SubSeq(path, 1, k - 1)
      r == binary_search_by(names[current_dir], path[k])
      inserted == [names EXCEPT ![current_dir] =
                     Vec_insert(@, r.index, path[k])]
                    @@ (SubSeq(path, 1, k) :> <<>>)
  IN
  add_dir_entries(IF r.ok THEN names ELSE inserted, path, k + 1)

\* dir.entries.insert(insert_index, entry) of add_file and add_symlink,
\* after add_dir of the parent of the path.
insert_entry(path) ==
  LET names == add_dir_entries(entries, parent(path), 1)
      r == binary_search_by(names[parent(path)], path[Len(path)])
  IN
  [names EXCEPT ![parent(path)] = Vec_insert(@, r.index, path[Len(path)])]

\* A path that add_file and add_symlink take without reaching unreachable!():
\* no entry has the path and the entries above it are directories.
CanAdd(path) ==
  /\ \A e \in root_dir : e.path # path
  /\ \A e \in root_dir : e.path \in Ancestors(path) => e.kind = "Dir"

\* The offset recorded for a checksum in file_offsets, -1 for none.
file_offsets_get(sum) ==
  LET found == {fo \in file_offsets : fo[1] = sum} IN
  IF found = {} THEN -1 ELSE (CHOOSE fo \in found : TRUE)[2]

\* VfsBuilder::add_file: the offset of data with the same checksum is used
\* again or current_offset is recorded for the checksum; the VirtualFile is
\* inserted; the data is pushed when the offset is current_offset.
VfsBuilder_add_file(path, data) ==
  LET sum == checksum(data)
      old == file_offsets_get(sum)
      offset == IF old # -1 THEN old ELSE current_offset
  IN
  /\ ext \in {"vfs", "symlinks", "dirs"}
  /\ ~vfs_file.some
  /\ CanAdd(path)
  /\ entries' = insert_entry(path)
  /\ file_offsets' = IF old # -1 THEN file_offsets
                     ELSE file_offsets \cup {<<sum, current_offset>>}
  /\ root_dir' = VfsBuilder_add_dir(root_dir, parent(path))
                   \cup {VirtualFile(path, offset, Len(data))}
  /\ IF current_offset = offset
     THEN /\ files' = Append(files, data)
          /\ current_offset' = current_offset + Len(data)
     ELSE UNCHANGED <<files, current_offset>>
  /\ contents' = contents \cup {<<path, data>>}
  /\ UNCHANGED <<runtime, boot, beside_fs, vfs_file, fs_ret>>

\* The bytes of the blobs, one after the other.
RECURSIVE Concat(_)
Concat(blobs) ==
  IF blobs = <<>> THEN <<>> ELSE Head(blobs) \o Concat(Tail(blobs))

\* into_virtual_fs: the blobs of the builder are written to the backing
\* file in their order, and the FileBackedVfs is made of the file and of the
\* root directory, with start_file_offset 0.
into_virtual_fs ==
  /\ ext \in {"vfs", "symlinks"}
  /\ ~vfs_file.some
  /\ vfs_file' = [some |-> TRUE, bytes |-> Concat(files)]
  /\ UNCHANGED <<runtime, boot, beside_fs, root_dir, entries, files,
                 current_offset, file_offsets, fs_ret, contents>>

\* VfsBuilder::add_symlink: the VirtualSymlink is inserted with the
\* components of its target below the root.
VfsBuilder_add_symlink(path, dest) ==
  /\ ext \in {"symlinks", "dirs"}
  /\ ~vfs_file.some
  /\ CanAdd(path)
  /\ entries' = insert_entry(path)
  /\ root_dir' = VfsBuilder_add_dir(root_dir, parent(path))
                   \cup {VirtualSymlink(path, dest)}
  /\ UNCHANGED <<runtime, boot, beside_fs, files, current_offset,
                 file_offsets, vfs_file, fs_ret, contents>>

\* VfsBuilder::add_dir called for a path: the directories of the path
\* that are missing are inserted, the others are found; a component that
\* names a file or a symlink reaches unreachable!().
add_dir(path) ==
  /\ ext = "dirs"
  /\ ~vfs_file.some
  /\ \A e \in root_dir :
       e.path \in Ancestors(path) \cup {path} => e.kind = "Dir"
  /\ entries' = add_dir_entries(entries, path, 1)
  /\ root_dir' = VfsBuilder_add_dir(root_dir, path)
  /\ UNCHANGED <<runtime, boot, beside_fs, files, current_offset,
                 file_offsets, vfs_file, fs_ret, contents>>

\* The root directory of a VfsRoot.
RootEntry == VirtualDirectory(<<>>)

\* The results of the lookups: an error, or the resolved path and the entry,
\* with the set `seen` as the lookup leaves it.
FoundEntry(path, entry, seen) ==
  [err |-> "none", path |-> path, entry |-> entry, seen |-> seen]

LookupError(err, seen) ==
  [err |-> err, path |-> <<>>, entry |-> NoEntry, seen |-> seen]

\* VfsRoot::find_entry_inner and find_entry_no_follow_inner. walk is the for
\* loop of find_entry_no_follow_inner from the i-th component on, with
\* final_path and current_entry as the loop holds them. `active` holds the
\* arguments (path, seen) of the calls of find_entry_inner that have not
\* returned: a call made with the arguments of one of them repeats what
\* that one did and makes the same call again, so the recursion has no end
\* and the lookup overflows the stack ("unbounded recursion").
RECURSIVE find_entry_inner(_, _, _), walk(_, _, _, _, _, _)
find_entry_inner(path, seen, active) ==
  IF <<path, seen>> \in active
  THEN LookupError("unbounded recursion", seen) ELSE
  LET r == walk(path, 1, <<>>, RootEntry, seen,
                active \cup {<<path, seen>>})
  IN
  IF r.err # "none" THEN r
  ELSE IF r.entry.kind = "Symlink"
  THEN IF path \in r.seen
       THEN LookupError("circular symlinks", r.seen)
       ELSE find_entry_inner(r.entry.dest_parts, r.seen \cup {path}, active)
  ELSE r

walk(path, i, final_path, current_entry, seen, active) ==
  IF i > Len(path) THEN FoundEntry(final_path, current_entry, seen) ELSE
  LET component == path[i]
      r == find_entry_inner(current_entry.dest_parts, seen, active)
      err == CASE current_entry.kind = "Dir" -> "none"
               [] current_entry.kind = "Symlink" ->
                    IF r.err # "none" THEN r.err
                    ELSE IF r.entry.kind = "Dir" THEN "none"
                    ELSE "NotFound"
               [] OTHER -> "NotFound"
      via == current_entry.kind = "Symlink"
      current_dir == IF via THEN r.entry ELSE current_entry
      pushed == Append(IF via THEN r.path ELSE final_path, component)
      seen_now == IF via THEN r.seen ELSE seen
      entry == binary_search(current_dir.path, component)
  IN
  IF err # "none" THEN LookupError(err, seen_now)
  ELSE IF entry = NoEntry THEN LookupError("NotFound", seen_now)
  ELSE walk(path, i + 1, pushed, entry, seen_now, active)

\* VfsRoot::find_entry and find_entry_no_follow: the lookups with a new,
\* empty `seen`.
find_entry(path) == find_entry_inner(path, {}, {})

find_entry_no_follow(path) ==
  walk(path, 1, <<>>, RootEntry, {}, {})

\* VfsEntryRef::as_fs_state: is_directory, is_file or is_symlink.
as_fs_state(entry) == entry.kind

\* A call on the FileBackedVfs returns. The calls leave the FileBackedVfs
\* as it was (read_to_string seeks from the start of the file): a behaviour
\* follows the first call.
FsReturn(op, path, err, kind, resolved, bytes) ==
  /\ ext \in {"vfs", "symlinks"}
  /\ vfs_file.some
  /\ fs_ret = NoFsCall
  /\ fs_ret' = [op |-> op, path |-> path, err |-> err, kind |-> kind,
                resolved |-> resolved, bytes |-> bytes]
  /\ UNCHANGED <<runtime, boot, beside_fs, root_dir, entries, files,
                 current_offset, file_offsets, vfs_file, contents>>

\* FileBackedVfs::symlink_metadata: the state of the entry that
\* find_entry_no_follow finds.
FileBackedVfs_symlink_metadata(path) ==
  LET r == find_entry_no_follow(path) IN
  /\ ext = "symlinks"
  /\ FsReturn("symlink_metadata", path, r.err,
              IF r.err = "none" THEN as_fs_state(r.entry) ELSE "none",
              <<>>, <<>>)

\* FileBackedVfs::metadata: the state of the entry that find_entry finds.
FileBackedVfs_metadata(path) ==
  LET r == find_entry(path) IN
  /\ ext = "symlinks"
  /\ FsReturn("metadata", path, r.err,
              IF r.err = "none" THEN as_fs_state(r.entry) ELSE "none",
              <<>>, <<>>)

\* FileBackedVfs::canonicalize: the path that find_entry resolved.
FileBackedVfs_canonicalize(path) ==
  LET r == find_entry(path) IN
  /\ ext = "symlinks"
  /\ FsReturn("canonicalize", path, r.err, "none", r.path, <<>>)

\* read_to_string reading len bytes that start before offset.
FileBackedVfs_read_at_start(file, entry) == SubSeq(file, 1, entry.len)

\* The seek to start_file_offset + offset and the read_exact of len bytes.
FileBackedVfs_read_exact(file, entry) ==
  SubSeq(file, entry.offset + 1, entry.offset + entry.len)

\* FileBackedVfs::read_to_string: the entry that find_entry finds must be a
\* file; its bytes are read from the backing file.
FileBackedVfs_read_to_string(path) ==
  LET r == find_entry(path)
      err == CASE r.err # "none" -> r.err
               [] r.entry.kind = "Dir" -> "path is a directory"
               [] r.entry.kind = "Symlink" -> "unreachable"
               [] r.entry.offset + r.entry.len > Len(vfs_file.bytes) ->
                    "UnexpectedEof"
               [] OTHER -> "none"
  IN
  FsReturn("read_to_string", path, err, "none", <<>>,
           IF err = "none"
           THEN FileBackedVfs_read_exact(vfs_file.bytes, r.entry)
           ELSE <<>>)

----------------------------------------------------------------------------
(* core/runtime_modules.rs                                                 *)

\* The fold of declare_ops_group: acc chained with each group in turn.
RECURSIVE chain_groups(_, _)
chain_groups(acc, groups) ==
  IF groups = <<>>
  THEN acc
  ELSE chain_groups(acc \o Head(groups), Tail(groups))

\* A declare_ops_group that keeps the first group only.
declare_ops_group_first(groups) ==
  IF groups = <<>> THEN <<>> ELSE Head(groups)

\* declare_ops_group: the groups folded into one vector.
declare_ops_group(groups) == chain_groups(<<>>, groups)

\* The group lengths a caller may choose (declare_ops! takes one op or
\* more), and the groups of the ops of module m with these lengths: its ops
\* in order, cut into groups.
GroupLengths ==
  UNION {[1 .. g -> 1 .. MaxDeclared] : g \in 0 .. MaxGroups}

RECURSIVE Sum(_)
Sum(lens) == IF lens = <<>> THEN 0 ELSE Head(lens) + Sum(Tail(lens))

GroupsOf(m, lens) ==
  [i \in 1 .. Len(lens) |->
     [k \in 1 .. lens[i] |-> OpName(m, Sum(SubSeq(lens, 1, i - 1)) + k)]]

\* The modules are made one after the other, before MultiModule::new.
NextModule(m) ==
  /\ ext = "modules"
  /\ multi.pc = "new"
  /\ ~modules[m].made
  /\ \A d \in Modules : d < m => modules[d].made

\* declare_ops_group is called with the groups of the ops of the module to
\* be made next.
declare_ops_group_call(m, lens) ==
  /\ NextModule(m)
  /\ Sum(lens) <= MaxDeclared
  /\ grouped' = [some |-> TRUE, groups |-> GroupsOf(m, lens),
                 v |-> declare_ops_group(GroupsOf(m, lens))]
  /\ UNCHANGED <<runtime, boot, beside_mods,
                 modules, multi, loaded, state_inits>>

\* The file lists a module may be made with (include_js_files! takes one
\* file or more): its first n files.
JsFiles(m) == {[k \in 1 .. n |-> SourcePair(m, k)] : n \in 1 .. MaxFiles}

\* BasicModule::pure_js: js files, no ops, no opstate_fn.
BasicModule_pure_js(m, js_files) ==
  /\ NextModule(m)
  /\ modules' = [modules EXCEPT ![m] =
       [made |-> TRUE, js_files |-> [some |-> TRUE, v |-> js_files],
        ops |-> [some |-> FALSE, v |-> <<>>], declared |-> <<>>,
        opstate_fn |-> FALSE]]
  /\ UNCHANGED <<runtime, boot, beside_mods,
                 grouped, multi, loaded, state_inits>>

\* BasicModule::with_ops: js files, the ops that declare_ops_group returned
\* (moved into the module) and an optional opstate_fn.
BasicModule_with_ops(m, js_files, opstate_fn) ==
  /\ NextModule(m)
  /\ grouped.some
  /\ modules' = [modules EXCEPT ![m] =
       [made |-> TRUE, js_files |-> [some |-> TRUE, v |-> js_files],
        ops |-> [some |-> TRUE, v |-> grouped.v], declared |-> grouped.v,
        opstate_fn |-> opstate_fn]]
  /\ grouped' = NoGroups
  /\ UNCHANGED <<runtime, boot, beside_mods,
                 multi, loaded, state_inits>>

\* MultiModule::new: the modules made so far are drained into the
\* MultiModule, in the order of the vector.
MultiModule_new ==
  /\ ext = "modules"
  /\ multi.pc = "new"
  /\ ~grouped.some
  /\ multi' = [pc |-> "made",
               n |-> Cardinality({m \in Modules : modules[m].made})]
  /\ UNCHANGED <<runtime, boot, beside_mods,
                 modules, grouped, loaded, state_inits>>

\* BasicModule::init_js: the files of the module, none when it has no list.
BasicModule_init_js(m) ==
  IF modules[m].js_files.some THEN modules[m].js_files.v ELSE <<>>

\* The map and flatten of MultiModule::init_js over the children from m on.
RECURSIVE flatten_init_js(_, _)
flatten_init_js(m, n) ==
  IF m > n THEN <<>>
  ELSE BasicModule_init_js(m) \o flatten_init_js(m + 1, n)

\* Step (a) of the bootstrap on the MultiModule. MultiModule::init_js: the
\* init_js of each child, flattened.
MultiModule_init_js ==
  /\ ext = "modules"
  /\ multi.pc = "made"
  /\ loaded' = flatten_init_js(1, multi.n)
  /\ multi' = [multi EXCEPT !.pc = "js"]
  /\ UNCHANGED <<runtime, boot, beside_mods,
                 modules, grouped, state_inits>>

\* BasicModule::init_state: runs the opstate_fn of the module if it has one.
BasicModule_init_state(m, inits) ==
  IF modules[m].opstate_fn THEN Append(inits, m) ELSE inits

\* Step (b) of the bootstrap on the MultiModule. MultiModule does not
\* define init_state: the default of JsRuntimeModule returns Ok(()) and
\* touches no state.
MultiModule_init_state ==
  /\ ext = "modules"
  /\ multi.pc = "js"
  /\ multi' = [multi EXCEPT !.pc = "state"]
  /\ UNCHANGED <<runtime, boot, beside_mods,
                 modules, grouped, loaded, state_inits>>

\* Step (c) of the bootstrap on the MultiModule. MultiModule does not
\* define init_op_registrar_middleware: the default returns the registrar.
MultiModule_init_op_registrar_middleware ==
  /\ ext = "modules"
  /\ multi.pc = "state"
  /\ multi' = [multi EXCEPT !.pc = "registrar"]
  /\ UNCHANGED <<runtime, boot, beside_mods,
                 modules, grouped, loaded, state_inits>>

\* The for loop of MultiModule::init_ops over the children from m on: the
\* init_ops of each child, which registers its ops if it still has them.
RECURSIVE init_ops_from(_, _, _)
init_ops_from(m, n, reg) ==
  IF m > n THEN reg
  ELSE init_ops_from(m + 1, n,
         IF modules[m].ops.some
         THEN register_all(registrar, modules[m].ops.v, reg)
         ELSE reg)

\* The registry after the loop of MultiModule::init_ops.
MultiModule_registers(n, reg) == init_ops_from(1, n, reg)

\* Step (d) of the bootstrap on the MultiModule. MultiModule::init_ops:
\* init_ops of each child in order, each taking its ops.
MultiModule_init_ops ==
  /\ ext = "modules"
  /\ multi.pc = "registrar"
  /\ registry' = MultiModule_registers(multi.n, registry)
  /\ modules' = [m \in Modules |->
                   IF m <= multi.n
                   THEN [modules[m] EXCEPT !.ops = [some |-> FALSE,
                                                     v |-> <<>>]]
                   ELSE modules[m]]
  /\ multi' = [multi EXCEPT !.pc = "ops"]
  /\ UNCHANGED <<runtime, beside_mods, extensions, registrar, init_ret,
                 trace, grouped, loaded, state_inits>>

----------------------------------------------------------------------------
\* resource_table_2.close(rid): removes the entry and runs its close hook.
ResourceTable2_close(rid) ==
  /\ ext \in {"tcp", "udp"}
  /\ ResourceTable_has(resource_table_2, rid)
  /\ LET e == CHOOSE x \in resource_table_2 : x.rid = rid IN
     /\ resource_table_2' = ResourceTable_remove(resource_table_2, rid)
     /\ canceled' = Resource_close(e.kind, <<2, rid>>)
     /\ closed' = closed \cup {<<2, rid>>}
  /\ UNCHANGED <<resource_table, next_rid, next_rid_2, cell, ops, panicked,
                 sync_ret, env>>

\* The ids a call may name: those handed out so far and the next one, which
\* stands for every id never handed out.
Named == {r \in Rids : r <= next_rid}
NamedSignals == {r \in SignalRids : r <= next_rid}
Named2 == {r \in Rids2 : r <= next_rid_2}

Next ==
  \/ \E tr \in {"tcp", "udp"}, p \in BOOLEAN, b \in BOOLEAN :
       op_listen(tr, p, b)
  \/ \E o \in Ops, rid \in Named2 : accept_tcp(o, rid)
  \/ \E o \in Ops, a \in BOOLEAN : accept_tcp_complete(o, a)
  \/ \E o \in Ops, rid \in Named2 : receive_udp(o, rid)
  \/ \E o \in Ops, rid \in Named2, p \in BOOLEAN :
       op_datagram_send(o, rid, p)
  \/ \E o \in Ops : datagram_borrowed(o)
  \/ \E o \in Ops, ok \in BOOLEAN : datagram_complete(o, ok)
  \/ \E o \in Ops, p \in BOOLEAN : op_connect(o, p)
  \/ \E o \in Ops, c \in BOOLEAN : op_connect_complete(o, c)
  \/ \E p \in BOOLEAN, b \in BOOLEAN : op_listen_unix(p, b)
  \/ \E o \in Ops, rid \in Named, p \in BOOLEAN, r \in BOOLEAN :
       op_datagram_send_unix(o, rid, p, r)
  \/ \E o \in Ops, ok \in BOOLEAN : op_datagram_send_unix_complete(o, ok)
  \/ op_signal_bind
  \/ \E rid \in NamedSignals : op_signal_unbind(rid)
  \/ \E o \in Ops, rid \in NamedSignals : op_signal_poll(o, rid)
  \/ \E o \in Ops : op_signal_poll_borrowed(o)
  \/ \E o \in Ops : op_signal_poll_canceled(o)
  \/ \E o \in Ops, item \in {"signal", "end"} : op_signal_poll_recv(o, item)
  \/ \E rid \in Named2 : ResourceTable2_close(rid)
  \/ \E p \in BOOLEAN, l \in BOOLEAN, n \in 0 .. MaxPluginOps,
          a \in BOOLEAN : op_open_plugin(p, l, n, a)
  \/ \E p \in Named : PluginResourceTable_add(p)
  \/ \E rid \in Named : PluginResourceTable_close(rid)

Spec == Init /\ [][Next]_vars

\* The runtime of op_listen, op_connect and op_datagram_send of
\* cli/ops/net.rs alone.
NetInit == Bare /\ ext \in {"tcp", "udp", "unixpacket"}

NetNext ==
  \/ \E tr \in {"tcp", "udp"}, p \in BOOLEAN, b \in BOOLEAN :
       op_listen(tr, p, b)
  \/ \E o \in Ops, rid \in Named2, p \in BOOLEAN :
       op_datagram_send(o, rid, p)
  \/ \E o \in Ops : datagram_borrowed(o)
  \/ \E o \in Ops, ok \in BOOLEAN : datagram_complete(o, ok)
  \/ \E o \in Ops, p \in BOOLEAN : op_connect(o, p)
  \/ \E o \in Ops, c \in BOOLEAN : op_connect_complete(o, c)
  \/ \E p \in BOOLEAN, b \in BOOLEAN : op_listen_unix(p, b)
  \/ \E o \in Ops, rid \in Named, p \in BOOLEAN, r \in BOOLEAN :
       op_datagram_send_unix(o, rid, p, r)
  \/ \E o \in Ops, ok \in BOOLEAN : op_datagram_send_unix_complete(o, ok)

NetSpec == NetInit /\ [][NetNext]_vars

\* A VfsBuilder to which files are added, and the FileBackedVfs made of it.
VfsInit == Bare /\ ext = "vfs"

VfsNext ==
  \/ \E path \in Paths, data \in Data : VfsBuilder_add_file(path, data)
  \/ into_virtual_fs
  \/ \E path \in Paths : FileBackedVfs_read_to_string(path)

VfsSpec == VfsInit /\ [][VfsNext]_vars

\* A VfsBuilder to which directories, files and symlinks are added on paths
\* with two names for the entries of a sub-directory.
DirSubNames == {"x", "y"}
DirPaths == {<<n>> : n \in RootNames} \cup
            {<<n, m>> : n \in RootNames, m \in DirSubNames}

DirInit == Bare /\ ext = "dirs"

DirNext ==
  \/ \E path \in DirPaths : add_dir(path)
  \/ \E path \in DirPaths : VfsBuilder_add_file(path, <<0>>)
  \/ \E path \in DirPaths : VfsBuilder_add_symlink(path, <<"a">>)

DirSpec == DirInit /\ [][DirNext]_vars

\* A VfsBuilder to which files of one content and symlinks are added, and
\* the FileBackedVfs made of it.
SymlinkInit == Bare /\ ext = "symlinks"

SymlinkNext ==
  \/ \E path \in Paths : VfsBuilder_add_file(path, <<0>>)
  \/ \E path \in Paths, dest \in Paths : VfsBuilder_add_symlink(path, dest)
  \/ into_virtual_fs
  \/ \E path \in Paths : FileBackedVfs_symlink_metadata(path)
  \/ \E path \in Paths : FileBackedVfs_metadata(path)
  \/ \E path \in Paths : FileBackedVfs_canonicalize(path)
  \/ \E path \in Paths : FileBackedVfs_read_to_string(path)

SymlinkSpec == SymlinkInit /\ [][SymlinkNext]_vars

\* The runtime of the plugin ops of cli/ops/plugin.rs with the ops that the
\* plugins register.
PluginInit == Bare /\ ext = "plugin"

PluginNext ==
  \/ \E p \in BOOLEAN, l \in BOOLEAN, n \in 0 .. MaxPluginOps,
          a \in BOOLEAN : op_open_plugin(p, l, n, a)
  \/ \E p \in Named : PluginResourceTable_add(p)
  \/ \E rid \in Named : PluginResourceTable_close(rid)
  \/ \E o \in Ops, i \in 1 .. (MaxRid * MaxPluginOps), a \in BOOLEAN :
       plugin_op(o, i, a)
  \/ \E o \in Ops : plugin_op_complete(o)
  \/ \E o \in Ops : plugin_op_abandon(o)

PluginSpec == PluginInit /\ [][PluginNext]_vars

\* The resource table as the code of the plugins sees it.
ViewNext ==
  \/ \E p \in BOOLEAN, l \in BOOLEAN, n \in 0 .. MaxPluginOps,
          a \in BOOLEAN : op_open_plugin(p, l, n, a)
  \/ \E p \in Named : PluginResourceTable_add(p)
  \/ \E rid \in Named : PluginResourceTable_close(rid)
  \/ \E rid \in Named : PluginResourceTable_has(rid)
  \/ PluginResourceTable_entries
  \/ \E rid \in Named : PluginResourceTable_get_boxed(rid)
  \/ \E rid \in Named : PluginResourceTable_get_mut_boxed(rid)
  \/ \E rid \in Named : PluginResourceTable_remove_boxed(rid)

ViewSpec == PluginInit /\ [][ViewNext]_vars

\* The runtime of the key ops of op_crates/crypto and the storage ops of
\* op_crates/webstorage.
WebInit == Bare /\ ext = "web"

WebNext ==
  \/ \E a \in Algorithms, g \in BOOLEAN : op_webcrypto_generate_key(a, g)
  \/ \E rid \in Named, a \in Algorithms, sg \in BOOLEAN :
       op_webcrypto_sign_key(rid, a, sg)
  \/ \E opened \in BOOLEAN : op_webstorage_open(opened)
  \/ \E rid \in Named : op_webstorage_length(rid)

WebSpec == WebInit /\ [][WebNext]_vars

\* The runtime of runtime/ops/command.rs, with the op_close of the runtime.
CommandInit == Bare /\ ext = "command"

CommandNext ==
  \/ \E i \in BOOLEAN, out \in BOOLEAN, e \in BOOLEAN, s \in BOOLEAN :
       op_command_spawn(i, out, e, s)
  \/ \E rid \in Named : op_command_child_status(rid)
  \/ \E o \in Ops, rid \in Named : op_command_child_wait(o, rid)
  \/ \E o \in Ops, ok \in BOOLEAN : op_command_child_wait_complete(o, ok)
  \/ \E o \in Ops, rid \in Named, out \in Named \cup {-1},
          e \in Named \cup {-1} : op_command_child_output(o, rid, out, e)
  \/ \E o \in Ops, ok \in BOOLEAN : op_command_child_output_complete(o, ok)
  \/ \E rid \in Named : op_close(rid)

CommandSpec == CommandInit /\ [][CommandNext]_vars

\* The subprocess ops with reads of the piped streams of the children.
OutputInit == Bare /\ ext = "command"

OutputNext ==
  \/ \E out \in BOOLEAN, e \in BOOLEAN, s \in BOOLEAN :
       op_command_spawn(FALSE, out, e, s)
  \/ \E o \in Ops, rid \in Named : op_read(o, rid)
  \/ \E o \in Ops : op_read_borrowed(o)
  \/ \E o \in Ops, ok \in BOOLEAN : op_read_complete(o, ok)
  \/ \E rid \in Named : op_command_child_status(rid)
  \/ \E o \in Ops, rid \in Named : op_command_child_wait(o, rid)
  \/ \E o \in Ops, ok \in BOOLEAN : op_command_child_wait_complete(o, ok)
  \/ \E o \in Ops, rid \in Named, out \in Named \cup {-1},
          e \in Named \cup {-1} : op_command_child_output(o, rid, out, e)
  \/ \E o \in Ops, ok \in BOOLEAN : op_command_child_output_complete(o, ok)

OutputSpec == OutputInit /\ [][OutputNext]_vars

\* The dispatch of the ops made by bin_op_sync and bin_op_async.
BinInit == Bare /\ ext = "bin"

BinNext ==
  \/ \E c \in BinCalls, p \in Payloads, buf \in BOOLEAN, r \in OpFnResults :
       bin_op_sync(c, p, buf, r)
  \/ \E c \in BinCalls, p \in Payloads, buf \in BOOLEAN :
       bin_op_async(c, p, buf)
  \/ \E c \in BinCalls, r \in OpFnResults : bin_op_async_complete(c, r)

BinSpec == BinInit /\ [][BinNext]_vars

\* The ops an extension may declare: none (Extension::pure_js) or its first
\* n ops.
Declarations(e) ==
  {[some |-> FALSE, v |-> <<>>]} \cup
  {[some |-> TRUE, v |-> [k \in 1 .. n |-> OpName(e, k)]] :
     n \in 0 .. MaxDeclared}

\* The registration of the ops of the extensions of a runtime.
RegistryInit ==
  /\ Fresh
  /\ doc_file = NoDocFile
  /\ ext = "registry"
  /\ extensions \in
       [Extensions -> {[NoExtension EXCEPT !.ops = d, !.middleware_fn = m] :
                         d \in UNION {Declarations(e) : e \in Extensions},
                         m \in BOOLEAN}]
  /\ \A e \in Extensions : extensions[e].ops \in Declarations(e)

RegistryNext ==
  \/ \E e \in Extensions : Extension_init_registrar(e)
  \/ \E e \in Extensions : Extension_init_ops(e)
  \/ \E i \in 1 .. (MaxExtensions * MaxDeclared) : dispatch(i)

RegistrySpec == RegistryInit /\ [][RegistryNext]_vars

\* The making and the bootstrap of a MultiModule of BasicModules.
ModuleInit == Bare /\ ext = "modules"

ModuleNext ==
  \/ \E m \in Modules, lens \in GroupLengths :
       declare_ops_group_call(m, lens)
  \/ \E m \in Modules : \E js \in JsFiles(m) : BasicModule_pure_js(m, js)
  \/ \E m \in Modules, f \in BOOLEAN : \E js \in JsFiles(m) :
       BasicModule_with_ops(m, js, f)
  \/ MultiModule_new
  \/ MultiModule_init_js
  \/ MultiModule_init_state
  \/ MultiModule_init_op_registrar_middleware
  \/ MultiModule_init_ops

ModuleSpec == ModuleInit /\ [][ModuleNext]_vars

\* The runtime of runtime/ops/signal.rs alone.
SignalInit == Init /\ ext = "signal"

SignalNext ==
  \/ op_signal_bind
  \/ \E rid \in NamedSignals : op_signal_unbind(rid)
  \/ \E o \in Ops, rid \in NamedSignals : op_signal_poll(o, rid)
  \/ \E o \in Ops : op_signal_poll_borrowed(o)
  \/ \E o \in Ops : op_signal_poll_canceled(o)
  \/ \E o \in Ops, item \in {"signal", "end"} : op_signal_poll_recv(o, item)

\* A call woken by the CancelHandle or by the release of the borrow it waits
\* for is polled again by the event loop; signals and the end of the stream
\* come from outside and may never come.
SignalFairSpec ==
  /\ SignalInit
  /\ [][SignalNext]_vars
  /\ \A o \in Ops : WF_vars(op_signal_poll_canceled(o))
  /\ \A o \in Ops : WF_vars(op_signal_poll_borrowed(o))

----------------------------------------------------------------------------
(* ext/napi/lib.rs                                                         *)

\* The holder of the borrow_mut of OpState that the middleware takes; the
\* calls of the ops are 1 .. MaxOps.
Middleware == MaxOps + 1

\* A usize within reach of zero is [top |-> FALSE, n |-> v] for the value v
\* and [top |-> TRUE, n |-> d] for the value usize::MAX - d.
usize_is_zero(c) == ~c.top /\ c.n = 0

\* c += 1 overflows at usize::MAX, c -= 1 at zero.
usize_add_overflows(c) == c.top /\ c.n = 0

usize_sub_overflows(c) == ~c.top /\ c.n = 0

\* The sum and the difference modulo 2^64, which a build without
\* overflow checks stores.
usize_wrapping_add(c) ==
  IF c.top
  THEN IF c.n = 0 THEN [top |-> FALSE, n |-> 0]
       ELSE [top |-> TRUE, n |-> c.n - 1]
  ELSE [top |-> FALSE, n |-> c.n + 1]

usize_wrapping_sub(c) ==
  IF c.top THEN [top |-> TRUE, n |-> c.n + 1]
  ELSE IF c.n = 0 THEN [top |-> TRUE, n |-> 0]
  ELSE [top |-> FALSE, n |-> c.n - 1]

\* What no step of ext/napi writes, apart from op_state and panicked.
beside_middleware == <<tables, cell, canceled, closed, ops, sync_ret, ext,
                       bin, boot, beside_napi>>

\* UnboundedSender::unbounded_send on a clone of async_work_sender: the
\* work joins the channel; executed gets its count.
unbounded_send_work ==
  /\ async_work_channel' = Append(async_work_channel, Len(executed) + 1)
  /\ executed' = Append(executed, 0)

\* Env::add_async_work, called by a native module from any thread.
Env_add_async_work ==
  /\ ext = "napi"
  /\ ~panicked
  /\ Len(executed) < MaxWork
  /\ unbounded_send_work
  /\ UNCHANGED <<pending_async_work, threadsafe_function_channel,
                 active_threadsafe_functions, middleware, middleware_ret,
                 processed, op_state, panicked, beside_middleware>>

\* A holder of a clone of threadsafe_function_sender, on any thread, sends
\* a ThreadSafeFunctionStatus.
threadsafe_function_send(status) ==
  /\ ext = "napi"
  /\ ~panicked
  /\ processed.alive + processed.dead + Len(threadsafe_function_channel)
       < MaxNotifications
  /\ threadsafe_function_channel' =
       Append(threadsafe_function_channel, status)
  /\ UNCHANGED <<async_work_channel, pending_async_work,
                 active_threadsafe_functions, middleware, middleware_ret,
                 executed, processed, op_state, panicked, beside_middleware>>

\* The event loop calls the middleware: it borrows the OpState.
event_loop_middleware ==
  /\ ext = "napi"
  /\ ~panicked
  /\ middleware.pc = "idle"
  /\ op_state = 0
  /\ op_state' = Middleware
  /\ middleware' = [IdleMiddleware EXCEPT !.pc = "recv_work"]
  /\ UNCHANGED <<async_work_channel, pending_async_work,
                 threadsafe_function_channel, active_threadsafe_functions,
                 middleware_ret, executed, processed, panicked,
                 beside_middleware>>

\* One turn of the first while let: a work that is Ready is pushed on
\* pending_async_work; Pending ends the loop.
poll_async_work ==
  /\ ext = "napi"
  /\ ~panicked
  /\ middleware.pc = "recv_work"
  /\ IF async_work_channel # <<>>
     THEN /\ pending_async_work' =
               Append(pending_async_work, Head(async_work_channel))
          /\ async_work_channel' = Tail(async_work_channel)
          /\ UNCHANGED middleware
     ELSE /\ middleware' = [middleware EXCEPT !.pc = "recv_status"]
          /\ UNCHANGED <<async_work_channel, pending_async_work>>
  /\ UNCHANGED <<threadsafe_function_channel, active_threadsafe_functions,
                 middleware_ret, executed, processed, op_state, panicked,
                 beside_middleware>>

\* The count after a notification, in a build that stores the sum or the
\* difference whatever it is.
count(status) ==
  IF status = "Alive"
  THEN usize_wrapping_add(active_threadsafe_functions)
  ELSE usize_wrapping_sub(active_threadsafe_functions)

\* One turn of the second while let: Alive adds one to the count and Dead
\* takes one off, which panics on overflow in a build with overflow checks
\* and wraps in one without; Pending ends the loop, the count is compared
\* with zero and the borrow ends with the block.
poll_threadsafe_function(overflow_checks) ==
  /\ ext = "napi"
  /\ ~panicked
  /\ middleware.pc = "recv_status"
  /\ IF threadsafe_function_channel # <<>>
     THEN LET status == Head(threadsafe_function_channel)
              overflows ==
                IF status = "Alive"
                THEN usize_add_overflows(active_threadsafe_functions)
                ELSE usize_sub_overflows(active_threadsafe_functions)
          IN  /\ threadsafe_function_channel' =
                   Tail(threadsafe_function_channel)
              /\ IF overflows /\ overflow_checks
                 THEN /\ panicked' = TRUE
                      /\ middleware' = [middleware EXCEPT !.pc = "overflow"]
                      /\ UNCHANGED <<active_threadsafe_functions, processed>>
                 ELSE /\ active_threadsafe_functions' = count(status)
                      /\ processed' =
                           IF status = "Alive"
                           THEN [processed EXCEPT !.alive = @ + 1]
                           ELSE [processed EXCEPT !.dead = @ + 1]
                      /\ UNCHANGED <<panicked, middleware>>
              /\ UNCHANGED op_state
     ELSE /\ middleware' =
               [middleware EXCEPT
                  !.pc = "pop",
                  !.scheduling = ~usize_is_zero(active_threadsafe_functions),
                  !.seen = ~usize_is_zero(active_threadsafe_functions)]
          /\ op_state' = 0
          /\ UNCHANGED <<threadsafe_function_channel,
                         active_threadsafe_functions, processed, panicked>>
  /\ UNCHANGED <<async_work_channel, pending_async_work, middleware_ret,
                 executed, beside_middleware>>

\* A block that pops with the borrow of the OpState kept until the work
\* has run.
pop_borrow_kept(holder) == holder

\* The block of the pop ends before the work runs: its borrow of the
\* OpState is released.
pop_borrow(holder) == 0

\* One turn of the loop up to the work: the OpState is borrowed for the
\* pop of pending_async_work; without a work the middleware returns
\* maybe_scheduling.
pop_async_work ==
  /\ ext = "napi"
  /\ ~panicked
  /\ middleware.pc = "pop"
  /\ IF op_state # 0
     THEN /\ panicked' = TRUE
          /\ middleware' = [middleware EXCEPT !.pc = "already_borrowed"]
          /\ UNCHANGED <<pending_async_work, middleware_ret, op_state>>
     ELSE IF pending_async_work # <<>>
     THEN /\ pending_async_work' =
               SubSeq(pending_async_work, 1, Len(pending_async_work) - 1)
          /\ middleware' =
               [middleware EXCEPT
                  !.pc = "work",
                  !.work = pending_async_work[Len(pending_async_work)]]
          /\ op_state' = pop_borrow(Middleware)
          /\ UNCHANGED <<middleware_ret, panicked>>
     ELSE /\ middleware_ret' =
               [some |-> TRUE, v |-> middleware.scheduling,
                ran |-> middleware.ran, seen |-> middleware.seen]
          /\ middleware' = IdleMiddleware
          /\ UNCHANGED <<pending_async_work, op_state, panicked>>
  /\ UNCHANGED <<async_work_channel, threadsafe_function_channel,
                 active_threadsafe_functions, executed, processed,
                 beside_middleware>>

\* work() runs: it may call back into the runtime, which borrows the
\* OpState for the time of the call, and it may queue further work.
work(calls_back, queues) ==
  /\ ext = "napi"
  /\ ~panicked
  /\ middleware.pc = "work"
  /\ IF calls_back /\ op_state # 0
     THEN /\ panicked' = TRUE
          /\ middleware' = [middleware EXCEPT !.pc = "already_borrowed"]
          /\ UNCHANGED <<async_work_channel, executed>>
     ELSE /\ IF queues /\ Len(executed) < MaxWork
             THEN /\ async_work_channel' =
                       Append(async_work_channel, Len(executed) + 1)
                  /\ executed' =
                       Append([executed EXCEPT ![middleware.work] = @ + 1], 0)
             ELSE /\ executed' = [executed EXCEPT ![middleware.work] = @ + 1]
                  /\ UNCHANGED async_work_channel
          /\ middleware' =
               [middleware EXCEPT
                  !.pc = "pop", !.scheduling = TRUE, !.ran = @ + 1,
                  !.work = 0]
          /\ UNCHANGED panicked
  /\ op_state' = IF op_state = Middleware /\ middleware'.pc = "pop"
                 THEN 0 ELSE op_state
  /\ UNCHANGED <<pending_async_work, threadsafe_function_channel,
                 active_threadsafe_functions, middleware_ret, processed,
                 beside_middleware>>

NapiInit == Bare /\ ext = "napi"

NapiNext ==
  \/ Env_add_async_work
  \/ \E status \in {"Alive", "Dead"} : threadsafe_function_send(status)
  \/ event_loop_middleware
  \/ poll_async_work
  \/ \E overflow_checks \in BOOLEAN :
       poll_threadsafe_function(overflow_checks)
  \/ pop_async_work
  \/ \E calls_back, queues \in BOOLEAN : work(calls_back, queues)

NapiSpec == NapiInit /\ [][NapiNext]_vars

\* The event loop polls again while the middleware asks for it, and a send
\* wakes the task that polled the channel, so a call of the middleware that
\* can be made is made and one under way goes on.
NapiFairSpec ==
  /\ NapiSpec
  /\ WF_vars(event_loop_middleware)
  /\ WF_vars(poll_async_work)
  /\ WF_vars(\E overflow_checks \in BOOLEAN :
               poll_threadsafe_function(overflow_checks))
  /\ WF_vars(pop_async_work)
  /\ WF_vars(\E calls_back, queues \in BOOLEAN : work(calls_back, queues))

----------------------------------------------------------------------------
(* cli/tools/test/extract.rs                                               *)

\* A text is the sequence of its lines. A line that holds a fence is
\* [fence |-> TRUE] with the attributes that follow the backticks, split at
\* the spaces; any other line is its text. star tells whether the line
\* starts with the "* " of a doc comment.
Fence(attributes) ==
  [fence |-> TRUE, star |-> FALSE, attributes |-> attributes, text |-> ""]

Text(text) ==
  [fence |-> FALSE, star |-> FALSE, attributes |-> <<>>, text |-> text]

Starred(line) == [line EXCEPT !.star = TRUE]

\* The lines of a markdown file.
MarkdownLines ==
  {Fence(<<"ts">>), Fence(<<"js">>), Fence(<<"ts", "ignore">>), Fence(<<"">>),
   Text("<!--"), Text("-->"), Text("foo();"), Text("bar();"),
   Text("import a")}

\* The lines of a block comment after its first.
CommentLines ==
  {Starred(Fence(<<"ts">>)), Starred(Fence(<<"">>)),
   Starred(Text("foo();")), Text("foo();"),
   Starred(Text("<!--")), Starred(Text("-->"))}

\* A markdown file, whose media type is unknown, of the lines t.
MarkdownFile(t) ==
  [specifier |-> "file:///README.md", media_type |-> "Unknown",
   lines |-> t, line_index |-> 0, named_exports |-> <<>>,
   default_export |-> <<>>]

\* A TypeScript file with one block comment, which starts on line
\* line_index (counted from 0) with first ("/**" or "/*") and goes on with
\* the lines t, and with the exports that ExportCollector gathers from the
\* program: named and default.
SourceFile(first, t, line_index, named, default) ==
  [specifier |-> "file:///main.ts", media_type |-> "TypeScript",
   lines |-> <<first>> \o t, line_index |-> line_index,
   named_exports |-> named, default_export |-> default]

\* The match on attributes.first().
MediaType_of(tag) ==
  CASE tag \in {"js", "javascript"} -> "JavaScript"
    [] tag = "mjs" -> "Mjs"
    [] tag = "cjs" -> "Cjs"
    [] tag = "jsx" -> "Jsx"
    [] tag \in {"ts", "typescript"} -> "TypeScript"
    [] tag = "mts" -> "Mts"
    [] tag = "cts" -> "Cts"
    [] tag = "tsx" -> "Tsx"
    [] OTHER -> "Unknown"

\* The extension that mapped_specifier_for_tsc appends for a media type to
\* a specifier that does not end with it, as the name of a block does not.
mapped_specifier_for_tsc(media_type) ==
  CASE media_type = "JavaScript" -> ".js"
    [] media_type = "Mjs" -> ".mjs"
    [] media_type = "Cjs" -> ".cjs"
    [] media_type = "Jsx" -> ".jsx"
    [] media_type = "TypeScript" -> ".ts"
    [] media_type = "Mts" -> ".mts"
    [] media_type = "Cts" -> ".cts"
    [] media_type = "Tsx" -> ".tsx"

is_fence(line) == line.fence

is_comment_end(line) == ~line.fence /\ line.text = "-->"

\* The first line after line i that holds what is looked for, a fence or
\* the end of an HTML comment; 0 without.
next_line(lines, i, fence) ==
  LET found == {j \in (i + 1) .. Len(lines) :
                  IF fence THEN is_fence(lines[j])
                  ELSE is_comment_end(lines[j])}
  IN  IF found = {} THEN 0
      ELSE CHOOSE j \in found : \A k \in found : j <= k

\* blocks_regex.captures_iter(source) from line i on: the matches from left
\* to right, none overlapping another. With html the pattern is that of
\* extract_files_from_fenced_blocks, whose first alternative matches an
\* HTML comment (without a group) and whose second a fenced block (with
\* groups); without html it is that of extract_files_from_source_comments,
\* which has the second only. A block ends at the first fence after its
\* own.
RECURSIVE captures_iter(_, _, _)
captures_iter(lines, i, html) ==
  IF i > Len(lines) THEN <<>>
  ELSE IF html /\ ~lines[i].fence /\ lines[i].text = "<!--"
            /\ next_line(lines, i, FALSE) # 0
  THEN LET j == next_line(lines, i, FALSE) IN
       <<[start |-> i, end |-> j, group |-> FALSE]>>
         \o captures_iter(lines, j + 1, html)
  ELSE IF lines[i].fence /\ next_line(lines, i, TRUE) # 0
  THEN LET j == next_line(lines, i, TRUE) IN
       <<[start |-> i, end |-> j, group |-> TRUE]>>
         \o captures_iter(lines, j + 1, html)
  ELSE captures_iter(lines, i + 1, html)

\* lines_regex.captures_iter(text) and the writeln! of each capture: the
\* pattern of the source comments needs the "*" of the line, so a line
\* without it has no match; the pattern of the fenced blocks takes every
\* line.
RECURSIVE file_source(_, _)
file_source(body, star) ==
  IF body = <<>> THEN <<>>
  ELSE (IF star /\ ~Head(body).star THEN <<>> ELSE <<Head(body).text>>)
         \o file_source(Tail(body), star)

\* A block whose line count is that of its body.
line_count_of_body(block) == block.end - block.start - 1

\* block.get(0).unwrap().as_str().split('\n').count(): the lines of the
\* match, from the fence to the fence.
line_count(block) == block.end - block.start + 1

\* The closure of the filter_map of extract_files_from_regex_blocks on one
\* match: <<>> for None, the File in a sequence for Some.
extracted_file(specifier, lines, file_line_index, block, star) ==
  IF ~block.group THEN <<>>
  ELSE LET attributes == lines[block.start].attributes
           file_media_type == MediaType_of(attributes[1])
           line_offset == block.start - 1
       IN  IF \E k \in 1 .. Len(attributes) : attributes[k] = "ignore"
           THEN <<>>
           ELSE IF file_media_type = "Unknown" THEN <<>>
           ELSE <<[specifier |->
                     [base |-> specifier,
                      first |-> file_line_index + line_offset + 1,
                      last |-> file_line_index + line_offset
                                 + line_count(block) + 1,
                      ext |-> mapped_specifier_for_tsc(file_media_type)],
                   media_type |-> file_media_type,
                   source |-> file_source(
                     SubSeq(lines, block.start + 1, block.end - 1), star)]>>

\* extract_files_from_regex_blocks: the Files of the matches, in the order
\* of the matches.
RECURSIVE files_of(_, _, _, _, _)
files_of(specifier, lines, file_line_index, blocks, star) ==
  IF blocks = <<>> THEN <<>>
  ELSE extracted_file(specifier, lines, file_line_index, Head(blocks), star)
         \o files_of(specifier, lines, file_line_index, Tail(blocks), star)

extract_files_from_regex_blocks(specifier, lines, line_index, html, star) ==
  files_of(specifier, lines, line_index, captures_iter(lines, 1, html), star)

\* extract_files_from_fenced_blocks: the whole text, from line index 0.
extract_files_from_fenced_blocks(file) ==
  extract_files_from_regex_blocks(file.specifier, file.lines, 0, TRUE, FALSE)

\* extract_files_from_source_comments: the block comments whose text
\* starts with '*', each from the line index of its start.
extract_files_from_source_comments(file) ==
  IF file.lines[1].star
  THEN extract_files_from_regex_blocks(file.specifier, file.lines,
                                       file.line_index, FALSE, TRUE)
  ELSE <<>>

\* What the lines of an extracted file are to the parser: an import, a
\* statement or nothing (an empty line). The parser is not among the
\* sources: whether it takes a line that opens or closes an HTML comment
\* for a comment, as a script may, or fails on it, is left open.
is_import(text) == text = "import a"

is_stmt(text) == text \in {"foo();", "bar();"}

parse_program(source, html_like_comments) ==
  \A k \in 1 .. Len(source) :
    \/ is_import(source[k]) \/ is_stmt(source[k]) \/ source[k] = ""
    \/ html_like_comments /\ source[k] \in {"<!--", "-->"}

\* An item of the module that Transform makes; the fields an item does
\* not use are empty.
NoSpecifier == [base |-> "", first |-> 0, last |-> 0, ext |-> ""]

ModuleDecl(text) ==
  [item |-> "ModuleDecl", text |-> text, specifiers |-> <<>>, src |-> "",
   test_name |-> NoSpecifier, stmts |-> <<>>]

\* ExportCollector::to_import_specifiers: the default export, then the
\* named ones.
to_import_specifiers(file) == file.default_export \o file.named_exports

ImportDecl(specifiers, src) ==
  [item |-> "ImportDecl", text |-> "", specifiers |-> specifiers,
   src |-> src, test_name |-> NoSpecifier, stmts |-> <<>>]

\* wrap_in_deno_test: Deno.test(test_name, async () => { stmts }).
wrap_in_deno_test(stmts, test_name) ==
  [item |-> "Deno.test", text |-> "", specifiers |-> <<>>, src |-> "",
   test_name |-> test_name, stmts |-> stmts]

\* Transform::visit_mut_program: the module declarations of the program,
\* the import of the exports of the base file if there is any, and the
\* statements wrapped in Deno.test. (A program without a module
\* declaration is a script: the same without the first part.)
visit_mut_program(source, specifier, base_file) ==
  LET module_decls == SelectSeq(source, is_import)
      stmts == SelectSeq(source, is_stmt)
      import_specifiers == to_import_specifiers(base_file)
  IN  [k \in 1 .. Len(module_decls) |-> ModuleDecl(module_decls[k])]
        \o (IF import_specifiers # <<>>
            THEN <<ImportDecl(import_specifiers, base_file.specifier)>>
            ELSE <<>>)
        \o <<wrap_in_deno_test(stmts, specifier)>>

\* generate_pseudo_test_file on an extracted file that parses.
generate_pseudo_test_file(file, base_file) ==
  [specifier |-> file.specifier, media_type |-> file.media_type,
   source |-> visit_mut_program(file.source, file.specifier, base_file)]

\* extract_doc_tests: the extracted files of the text, each made a pseudo
\* test file; an extracted file that does not parse makes the whole call
\* an Err.
extract_doc_tests(file, html_like_comments) ==
  LET extracted_files ==
        IF file.media_type = "Unknown"
        THEN extract_files_from_fenced_blocks(file)
        ELSE extract_files_from_source_comments(file)
  IN  IF \A k \in 1 .. Len(extracted_files) :
           parse_program(extracted_files[k].source, html_like_comments)
      THEN [called |-> TRUE, ok |-> TRUE,
            files |-> [k \in 1 .. Len(extracted_files) |->
                         generate_pseudo_test_file(extracted_files[k], file)]]
      ELSE [called |-> TRUE, ok |-> FALSE, files |-> <<>>]

\* The call of extract_doc_tests on the file.
extract_doc_tests_call ==
  /\ ext = "doc"
  /\ ~doc_ret.called
  /\ \E html_like_comments \in BOOLEAN :
       doc_ret' = extract_doc_tests(doc_file, html_like_comments)
  /\ UNCHANGED <<tables, cell, canceled, closed, ops, panicked, sync_ret,
                 ext, op_state, bin, boot, beside_docs, doc_file>>

DocInit ==
  /\ Fresh
  /\ extensions = [e \in Extensions |-> NoExtension]
  /\ ext = "doc"
  /\ \E n \in 0 .. MaxLines :
       \/ \E t \in [1 .. n -> MarkdownLines] : doc_file = MarkdownFile(t)
       \/ /\ n > 0
          /\ \E t \in [1 .. n -> CommentLines] :
               \E first \in {Starred(Text("")), Text("")}, i \in {0, 1},
                  exports \in BOOLEAN :
                 doc_file =
                   SourceFile(first, t, i,
                              IF exports THEN <<"foo">> ELSE <<>>,
                              IF exports THEN <<"Bar">> ELSE <<>>)

DocNext == extract_doc_tests_call

DocSpec == DocInit /\ [][DocNext]_vars

----------------------------------------------------------------------------
(* Claims                                                                  *)

\* The resources registered at this moment, each with its table.
LiveResources ==
  {<<1, e>> : e \in resource_table} \cup {<<2, e>> : e \in resource_table_2}

\* C1: no two simultaneously live resources share an id, whether they were
\* registered by op_listen, op_accept, op_connect or op_command_spawn.
C1_LiveResourcesHaveDistinctIds ==
  \A a \in LiveResources, b \in LiveResources :
    a # b => a[2].rid # b[2].rid

\* get<T>(rid) of the table that registered `key` finds a resource.
Found(key) ==
  IF key[1] = 1
  THEN ResourceTable_has(resource_table, key[2])
  ELSE ResourceTable_has(resource_table_2, key[2])

C4_FailFastReturnsBusyAtOnce ==
  \A o \in Ops :
    ops[o].kind = "accept" =>
      /\ ops[o].busy /\ ops[o].res # "BadResource" =>
           ops[o].pc = "done" /\ ops[o].res = "Busy" /\ ops[o].obs = "none"
      /\ ops[o].pc \notin WaitingPcs
      /\ \A key \in Keys :
           \A i \in 1 .. Len(cell[key].waiters) : cell[key].waiters[i] # o

\* C4 witness: a second accept returned Busy while the first accept on the
\* same listener is still in flight.
C4_Witness ==
  \E o \in Ops, p \in Ops :
    /\ ops[p].kind = "accept" /\ ops[p].pc = "accepting"
    /\ ops[o].kind = "accept" /\ ops[o].key = ops[p].key
    /\ ops[o].pc = "done" /\ ops[o].res = "Busy"

\* C5: an accept that finds the listener returns Busy exactly when another
\* accept on that listener is in flight: the first of two concurrent ones
\* gets the borrow, and an accept dispatched after the release gets it too.
C5_BusyIffAcceptInFlight ==
  \A o \in Ops :
    ops[o].kind = "accept" /\ ops[o].res # "BadResource" =>
      (ops[o].res = "Busy" <=> ops[o].busy)

\* C5 witness: the first accept completed or failed, the second returned
\* Busy, the third, dispatched after the release, got the borrow.
C5_Witness ==
  /\ \A o \in 1 .. 3 : ops[o].kind = "accept" /\ ops[o].key = ops[1].key
  /\ ops[1].pc = "done" /\ ops[1].res \in {"Ok", "Err"}
  /\ ops[2].res = "Busy"
  /\ ops[3].pc = "accepting" /\ ~ops[3].busy

\* A call went through the suspending borrow of `key` and got it.
Served(o, key) ==
  /\ ops[o].kind \in {"receive", "send"}
  /\ ops[o].key = key
  /\ ops[o].pc = "udp_io" \/ ops[o].obs \in {"io", "error"}

\* C6: the suspending borrow is taken at once when the cell is free (a
\* call waits only if it met a borrow outstanding or requested), and the
\* waiting calls are served in the order they asked: no call is served
\* while one dispatched before it waits.
C6_SuspendingBorrowIsFifo ==
  \A key \in Keys :
    /\ \A o \in Ops : ops[o].pc = "udp_wait" /\ ops[o].key = key =>
         /\ ops[o].busy
         /\ \A p \in Ops : Served(p, key) => p < o
         /\ \/ cell[key].holder = o
            \/ \E i \in 1 .. Len(cell[key].waiters) :
                 cell[key].waiters[i] = o
    /\ \A i \in 1 .. Len(cell[key].waiters) :
         \A j \in 1 .. Len(cell[key].waiters) :
           i < j => cell[key].waiters[i] < cell[key].waiters[j]

\* C6 witness: two calls waited behind the holder of one socket; the holder
\* released, the call that asked first is served, the other still waits.
C6_Witness ==
  /\ \A o \in 1 .. 3 : ops[o].key = ops[1].key
  /\ ops[1].pc = "done" /\ ops[1].obs = "io"
  /\ ops[2].pc = "udp_io" /\ ops[2].busy
  /\ ops[3].pc = "udp_wait" /\ ops[3].busy
  /\ {ops[2].kind, ops[3].kind} = {"receive", "send"}

\* An op_signal_poll is suspended, waiting for a signal or for the borrow
\* of the signal stream, and its rid has been closed.
SuspendedOnClosed(o) ==
  /\ ops[o].kind = "poll"
  /\ ops[o].pc \in {"sig_recv", "sig_wait"}
  /\ ops[o].key \in closed

\* C7: an op_signal_poll that is suspended when op_signal_unbind closes its
\* rid resolves: it does not stay pending forever, and the next step it
\* takes after the close is the one that resolves it.
C7_ClosedPollResolves ==
  /\ \A o \in Ops : [](SuspendedOnClosed(o) => <>(ops[o].pc = "done"))
  /\ [][\A o \in Ops :
         SuspendedOnClosed(o) /\ ops'[o] # ops[o] => ops'[o].pc = "done"]_vars

\* C7 witness: a poll waits for a signal and its rid has just been closed.
C7_Witness ==
  \E o \in Ops :
    /\ ops[o].kind = "poll" /\ ops[o].pc = "sig_recv"
    /\ ops[o].key \in closed /\ ~ops[o].late

\* C8: a poll that observes the cancellation returns Ok(true), the value it
\* returns at the end of the stream; a poll that was suspended never returns
\* an error.
C8_CanceledPollIsCleanEnd ==
  \A o \in Ops :
    ops[o].kind = "poll" =>
      /\ ops[o].obs \in {"canceled", "end"} => ops[o].res = "Ok(true)"
      /\ ops[o].pc = "done" /\ ops[o].obs # "none" =>
           ops[o].res \in {"Ok(true)", "Ok(false)"}

\* C8 witness: a poll dispatched before the close of its rid resolved after
\* it, by the cancellation, with Ok(true).
C8_Witness ==
  \E o \in Ops :
    /\ ops[o].kind = "poll" /\ ops[o].pc = "done" /\ ~ops[o].late
    /\ ops[o].post /\ ops[o].obs = "canceled" /\ ops[o].res = "Ok(true)"

\* C9: after the close, the cancellation is what the holder of the borrow
\* and every call waiting for it meet: a poll dispatched before the close
\* and resolved after it resolved by the cancellation, and no poll reports
\* a signal once its rid is closed.
C9_NoSignalAfterClose ==
  \A o \in Ops :
    ops[o].kind = "poll" =>
      /\ SuspendedOnClosed(o) => ops[o].key \in canceled
      /\ ops[o].pc = "done" /\ ~ops[o].late /\ ops[o].post =>
           ops[o].obs = "canceled"
      /\ ops[o].obs = "signal" => ~ops[o].post

\* C9 witness: the rid was closed while one poll held the borrow and another
\* waited for it; both resolved by the cancellation.
C9_Witness ==
  \E o \in Ops, p \in Ops :
    /\ o # p /\ ops[o].key = ops[p].key
    /\ ops[o].kind = "poll" /\ ops[p].kind = "poll"
    /\ ~ops[o].busy /\ ops[p].busy
    /\ ops[o].post /\ ops[o].obs = "canceled"
    /\ ops[p].post /\ ops[p].obs = "canceled"

\* C10: whenever a call is suspended in a long wait (accept, receive, child
\* wait, signal poll) on a resource that has been closed, the resource's
\* CancelHandle has been triggered for the call to observe.
C10_SuspendedWaitRacesCancelHandle ==
  \A o \in Ops :
    ops[o].pc \in HoldingPcs /\ ops[o].key \in closed =>
      ops[o].key \in canceled

\* The synchronous calls that close a resource id, and their results for an
\* id that is not live.
CloseCalls == {"op_signal_unbind", "PluginResourceTable_close", "op_close"}
CloseErrors == {"BadResourceId", "None"}

Took(o) ==
  \/ ops[o].kind = "wait" /\ ops[o].res # "BadResource"
  \/ ops[o].kind = "output" /\ ops[o].obs = "taken"

TakenKeys == {ops[o].key : o \in {p \in Ops : Took(p)}}

\* C12: once op_command_child_wait or op_command_child_output has taken a
\* child, also while its wait is suspended, the rid is not found again:
\* every later status (get), wait or output (take) and close of it returns
\* the bad resource error and leaves resource_table alone, so that at most
\* one call per child proceeds to wait and holds its cell.
C12_TakenChildIsNotFound ==
  /\ [](\A o \in Ops : Took(o) =>
          /\ ~ResourceTable_has(resource_table, ops[o].key[2])
          /\ \A p \in Ops : p # o /\ Took(p) => ops[p].key # ops[o].key)
  /\ [](\A key \in Keys : Cardinality({o \in Ops : Holds(o, key)}) <= 1)
  /\ [][sync_ret' # sync_ret /\ <<1, sync_ret'.rid>> \in TakenKeys =>
          /\ sync_ret'.res \in {"BadResource", "BadResourceId"}
          /\ UNCHANGED tables]_vars
  /\ [][\A o \in Ops :
          ops[o].pc = "idle" /\ ops'[o].pc # "idle"
            /\ ops'[o].key \in TakenKeys =>
          /\ ops'[o].pc = "done" /\ ops'[o].res = "BadResource"
          /\ ops'[o].obs # "taken"
          /\ UNCHANGED tables]_vars

\* C12 witness: while a wait that took the child is suspended, an
\* op_command_child_output and an op_command_child_status of the same rid
\* returned the bad resource error.
C12_Witness ==
  \E o \in Ops, p \in Ops :
    /\ ops[o].kind = "wait" /\ ops[o].pc = "child_waiting"
    /\ ops[p].kind = "output" /\ ops[p].key = ops[o].key
    /\ ops[p].pc = "done" /\ ops[p].res = "BadResource"
    /\ sync_ret = [op |-> "op_command_child_status", rid |-> ops[o].key[2],
                   res |-> "BadResource"]

\* The rid is live in resource_table and its resource is not of this type.
OfOtherType(rid, kind) ==
  \E e \in resource_table : e.rid = rid /\ e.kind # kind

\* C13: a get<T> of an id that is live with a resource of another type
\* returns the error it returns for an absent id, bad resource id, and
\* leaves the tables unchanged: op_webcrypto_sign_key with an algorithm
\* whose key type is not the type of the resource, op_webstorage_length on
\* a rid that is no storage connection.
C13_TypeMismatchIsNotFound ==
  /\ [][sync_ret'.op = "op_webcrypto_sign_key" =>
          \A a \in Algorithms, sg \in BOOLEAN :
            /\ op_webcrypto_sign_key(sync_ret'.rid, a, sg)
            /\ SignKeyType(a) # "none"
            /\ \/ OfOtherType(sync_ret'.rid, SignKeyType(a))
               \/ ~ResourceTable_has(resource_table, sync_ret'.rid)
            => sync_ret'.res = "BadResourceId" /\ UNCHANGED tables]_vars
  /\ [][/\ sync_ret'.op = "op_webstorage_length"
         /\ op_webstorage_length(sync_ret'.rid)
         /\ \/ OfOtherType(sync_ret'.rid, "webStorage")
            \/ ~ResourceTable_has(resource_table, sync_ret'.rid)
         => sync_ret'.res = "BadResourceId" /\ UNCHANGED tables]_vars

\* C13 witness: signing with a supported algorithm failed with bad resource
\* id on the rid of a live key, and so did the length of the rid of a key.
C13_Witness ==
  /\ sync_ret.op \in {"op_webcrypto_sign_key", "op_webstorage_length"}
  /\ sync_ret.res = "BadResourceId"
  /\ \E e \in resource_table :
       e.rid = sync_ret.rid /\ e.kind \in {"HMACKey", "RSAPublicCryptoKey"}

\* The entries that a step appended to the registry.
Added == SubSeq(registry', Len(registry) + 1, Len(registry'))

\* What a call of the op name registered through chain is to run: the
\* pre-logic of each middleware in the order of chain, the declared op, the
\* post-logic of each middleware in the opposite order.
Stacked(chain, name) ==
  LET n == Len(chain) IN
  [k \in 1 .. (2 * n + 1) |->
     IF k <= n THEN [ev |-> "pre", by |-> chain[k], name |-> name]
     ELSE IF k = n + 1 THEN [ev |-> "call", by |-> 0, name |-> name]
     ELSE [ev |-> "post", by |-> chain[2 * n + 2 - k], name |-> name]]

\* How many events of trace are ev by e.
Times(ev, e) ==
  Cardinality({k \in 1 .. Len(trace) : trace[k].ev = ev /\ trace[k].by = e})

\* C17: an op registered through stacked middlewares runs, at every
\* dispatch, the pre-logic and the post-logic of each wrapper exactly once,
\* in the order in which the wrappers were composed (the pre-logic of the
\* extension declared first runs first, its post-logic last), and the
\* declared op exactly once.
C17_StackedMiddlewaresRunOnceInOrder ==
  /\ [][\A e \in Extensions :
          Extension_init_ops(e) =>
            \A i \in 1 .. Len(Added) :
              Call(Added[i].op_fn.orig, Added[i].op_fn.wraps)
                = Stacked(registrar, extensions[e].ops.v[i])]_vars
  /\ [][\A i \in 1 .. Len(registry) :
          dispatch(i) =>
            /\ Times("call", 0)' = 1
            /\ \A e \in Extensions :
                 /\ Times("pre", e)' = Times("post", e)'
                 /\ Times("pre", e)' =
                      IF \E k \in 1 .. Len(registry[i].op_fn.wraps) :
                           registry[i].op_fn.wraps[k] = e
                      THEN 1 ELSE 0]_vars

\* C17 witness: an op registered through the middlewares of extensions 1
\* and 2 has been dispatched and ran both, nested in that order.
C17_Witness ==
  \E name \in {OpName(2, 1)} : trace = Stacked(<<1, 2>>, name)

\* C18: of the middlewares around an op, the one declared outermost (the
\* middleware of the extension declared first, whose OpMiddleware is next
\* to the runtime) is the last transform applied before the op function is
\* stored, and a call runs its pre-logic first and its post-logic last.
C18_OutermostIsAppliedLast ==
  \A i \in 1 .. Len(registry) :
    LET w == registry[i].op_fn.wraps
        t == Call(registry[i].op_fn.orig, w)
    IN w # <<>> =>
         /\ \A k \in 1 .. Len(w) : w[Len(w)] <= w[k]
         /\ t[1].ev = "pre" /\ t[1].by = w[Len(w)]
         /\ t[Len(t)].ev = "post" /\ t[Len(t)].by = w[Len(w)]
         /\ registrar # <<>> /\ registrar[1] = w[Len(w)]

\* C18 witness: an op stored with two middlewares around it, the one of
\* extension 1 applied last.
C18_Witness ==
  \E i \in 1 .. Len(registry) : registry[i].op_fn.wraps = <<2, 1>>

\* C19: registering through middleware layers leaves the op names alone:
\* an init_ops appends to the registry exactly the declared names, in order
\* and each once, each bound to the wrapped version of its own op, and no
\* name is bound twice.
C19_MiddlewareKeepsOpNames ==
  /\ [][\A e \in Extensions :
          Extension_init_ops(e) =>
            /\ SubSeq(registry', 1, Len(registry)) = registry
            /\ [i \in 1 .. Len(Added) |-> Added[i].name] =
                 (IF extensions[e].ops.some THEN extensions[e].ops.v
                  ELSE <<>>)
            /\ \A i \in 1 .. Len(Added) :
                 Added[i].op_fn.orig = Added[i].name]_vars
  /\ [](\A i, j \in 1 .. Len(registry) :
          registry[i].name = registry[j].name => i = j)

\* C19 witness: two ops of an extension are in the registry under their
\* declared names with two middlewares around each.
C19_Witness ==
  \E i, j \in 1 .. Len(registry) :
    /\ registry[i].name = OpName(2, 1) /\ registry[j].name = OpName(2, 2)
    /\ Len(registry[i].op_fn.wraps) = 2 /\ Len(registry[j].op_fn.wraps) = 2

\* Pair a comes before pair b: an earlier module, or the same module and
\* an earlier item of it.
Before(a, b) == a[1] < b[1] \/ (a[1] = b[1] /\ a[2] < b[2])

\* seq lists exactly the pairs of items, module by module in the order of
\* the modules and, within a module, in the order of its items.
ListsInOrder(seq, items) ==
  /\ \A i, j \in 1 .. Len(seq) : i < j => Before(seq[i], seq[j])
  /\ {seq[i] : i \in 1 .. Len(seq)} = items

\* The children of the MultiModule.
Children == {m \in Modules : m <= multi.n}

\* The source pairs and the op names the children were made with.
ChildFiles ==
  UNION {{modules[m].js_files.v[k] : k \in 1 .. Len(modules[m].js_files.v)} :
           m \in Children}
ChildOps ==
  UNION {{modules[m].declared[k] : k \in 1 .. Len(modules[m].declared)} :
           m \in Children}

\* The names bound in the registry, in the order of their registration.
RegisteredNames == [i \in 1 .. Len(registry) |-> registry[i].name]

\* C21: the bootstrap of a composite applies every step to every child in
\* declaration order: once it is over the source modules of the children
\* are exposed, the state-initializer of every child that has one has run,
\* and the ops of every child are registered.
C21_CompositeBootstrapsEveryChild ==
  multi.pc = "ops" =>
    /\ ListsInOrder(loaded, ChildFiles)
    /\ ListsInOrder(RegisteredNames, ChildOps)
    /\ \A i, j \in 1 .. Len(state_inits) :
         i < j => state_inits[i] < state_inits[j]
    /\ {state_inits[i] : i \in 1 .. Len(state_inits)} =
         {m \in Children : modules[m].opstate_fn}

\* C22: composition preserves order: what init_js of a MultiModule returns
\* and what its init_ops registers lists the items of the children child by
\* child in declaration order and in each child's own order, and
\* declare_ops_group returns its groups one after the other, every op of
\* every group once.
C22_CompositionPreservesOrder ==
  /\ multi.pc \notin {"new", "made"} => ListsInOrder(loaded, ChildFiles)
  /\ multi.pc = "ops" => ListsInOrder(RegisteredNames, ChildOps)
  /\ grouped.some =>
       /\ Len(grouped.v) =
            Sum([i \in 1 .. Len(grouped.groups) |-> Len(grouped.groups[i])])
       /\ \A i \in 1 .. Len(grouped.groups) :
            \A k \in 1 .. Len(grouped.groups[i]) :
              grouped.v[Sum([h \in 1 .. (i - 1) |->
                               Len(grouped.groups[h])]) + k]
                = grouped.groups[i][k]

\* C22 witness: a MultiModule of two children, each made with two source
\* files and two ops, has been bootstrapped.
C22_Witness ==
  /\ multi.pc = "ops" /\ multi.n = 2
  /\ Len(loaded) = 4 /\ Len(registry) = 4
  /\ \A m \in {1, 2} : Len(modules[m].declared) = 2

\* C20: an init_ops on an extension whose op declarations an earlier
\* init_ops has consumed fails: it does not return Ok.
C20_SecondInitOpsFails == init_ret.again => init_ret.res # "Ok"

\* A call that has been dispatched and has not returned.
Suspended(o) == ops[o].pc \notin {"idle", "done"}

\* C16: no handler holds a borrow of OpState across a suspension point:
\* while an asynchronous op is suspended OpState is not borrowed, so a call
\* dispatched then borrows it without a borrow failure.
C16_NoOpStateBorrowAcrossAwait ==
  /\ (\E o \in Ops : Suspended(o)) => op_state = 0
  /\ \A o \in Ops : ops[o].res # "panic"

\* C15: no failure of a bin op call aborts the dispatch loop: a payload
\* that is not a u32, a call without a buffer and an op_fn that returns Err
\* each yield an error result, and a call without a buffer does not invoke
\* op_fn.
C15_BinFailureIsAnErrorResult ==
  /\ ~panicked
  /\ \A c \in BinCalls :
       /\ bin[c].pc # "panic"
       /\ bin[c].pc = "done" /\ ~bin[c].invoked => bin[c].res = "Err"

\* C14: a call that failed left resource_table as it was before the call:
\* an op_command_child_output that returned the bad resource error took
\* nothing out of it.
C14_FailedCallHasNoEffect ==
  \A o \in Ops :
    ops[o].kind = "output" /\ ops[o].pc = "done"
      /\ ops[o].res = "BadResource" => ops[o].obs # "taken"


\* C23: once dispatch has started no call changes the op registry; every
\* step of the plugin ops is a dispatched call (op_open_plugin, the op of a
\* plugin, or a call made by the code of a plugin), so none of them changes
\* the registry.
C23_RegistryFixedDuringDispatch ==
  [][ext = "plugin" => registry' = registry]_vars

\* What the code of plugin p made that is still live: a resource added
\* through its resource table, an op it registered, a pending future of
\* such an op.
LiveResourceOf(p) ==
  \E e \in resource_table : <<"resource", e.rid, p>> \in made_by

LiveOpOf(p) == p \in Callable

LiveFutureOf(p) ==
  \E o \in Ops : ops[o].pc = "plugin_pending" /\ <<"future", o, p>> \in made_by

\* C27: while a resource added through the resource table of a plugin is
\* registered, or an op it registered or a pending future of such an op
\* exists, a share of the library handle is held and the library is not
\* unloaded, also after the resource id of the plugin has been closed.
C27_LibraryOutlivesWhatItMade ==
  \A p \in Rids :
    LiveResourceOf(p) \/ LiveOpOf(p) \/ LiveFutureOf(p) =>
      /\ p \notin unloaded
      /\ p \in LibrariesOf(rc)

\* The plugin 0 registered no op and added resource 1 in its initializer;
\* its own resource id has been closed and resource 1 is still registered.
C27_Witness ==
  /\ ~ResourceTable_has(resource_table, 0)
  /\ <<1, 0>> \in closed
  /\ <<"resource", 1, 0>> \in made_by
  /\ ResourceTable_has(resource_table, 1)
  /\ ~LiveOpOf(0)
  /\ rc = {<<"RefResource", 1, 0>>}


\* C24: a call of an op made by bin_op_async whose op_fn was called and whose
\* future has yielded (a u32, a byte vector or an error) has its result
\* delivered later, as the output of the future of an Op::Async, and the
\* result carries the promise id of the call.
C24_AsyncResultCarriesPromiseId ==
  \A c \in BinCalls :
    bin[c].mode = "async" /\ bin[c].invoked /\ bin[c].pc = "done" =>
      bin[c].op = "Async" /\ bin[c].pid = PromiseId(c)


\* Call o returns the permission error at its first poll, having awaited
\* nothing.
Denied(o) ==
  /\ ops'[o].pc = "done"
  /\ ops'[o].res = "PermissionDenied"
  /\ ops'[o].obs = "none"
  /\ ops'[o].ret = -1

ChildIds(child) ==
  {child.rid, child.stdin_rid, child.stdout_rid, child.stderr_rid} \ {-1}

\* The kinds of the resources of a spawn with the given piped streams.
SpawnKinds(stdin, stdout, stderr) ==
  {"child"} \cup (IF stdin THEN {"childStdin"} ELSE {})
            \cup (IF stdout THEN {"childStdout"} ELSE {})
            \cup (IF stderr THEN {"childStderr"} ELSE {})

\* C26: a successful op_command_spawn registers one child resource and one
\* resource per piped stream, none for a stream that is not piped, and the
\* Child it returns names exactly these resources: the ids are pairwise
\* distinct, each names the resource of its kind, and all are live when the
\* call returns.
C26_SpawnRegistersChildAndPipes ==
  [][\A stdin \in BOOLEAN, stdout \in BOOLEAN, stderr \in BOOLEAN :
       op_command_spawn(stdin, stdout, stderr, TRUE) =>
         LET new == resource_table' \ resource_table
             kinds == SpawnKinds(stdin, stdout, stderr)
             ret == child_ret'
         IN
         /\ resource_table \subseteq resource_table'
         /\ {e.kind : e \in new} = kinds
         /\ Cardinality(new) = Cardinality(kinds)
         /\ {e.rid : e \in new} = ChildIds(ret)
         /\ Cardinality(ChildIds(ret)) = Cardinality(kinds)
         /\ (ret.stdin_rid # -1) = stdin
         /\ (ret.stdout_rid # -1) = stdout
         /\ (ret.stderr_rid # -1) = stderr
         /\ \A e \in new :
              e.rid = (CASE e.kind = "child" -> ret.rid
                         [] e.kind = "childStdin" -> ret.stdin_rid
                         [] e.kind = "childStdout" -> ret.stdout_rid
                         [] e.kind = "childStderr" -> ret.stderr_rid)
         /\ \A id \in ChildIds(ret) : ResourceTable_has(resource_table', id)
    ]_vars

\* A child spawned with its three streams piped: four resources are live
\* and the Child names them.
C26_Witness ==
  /\ child_ret = [rid |-> 3, stdin_rid |-> 0, stdout_rid |-> 1,
                  stderr_rid |-> 2]
  /\ \A id \in 0 .. 3 : ResourceTable_has(resource_table, id)
  /\ Cardinality(resource_table) = 4


\* The distinct contents of the files added to the builder.
DistinctContents == {c[2] : c \in contents}

\* C28: after add_file calls on distinct paths the number of blobs in files
\* is the number of distinct contents added, and the files of one content
\* have one offset.
C28_IdenticalContentStoredOnce ==
  /\ Len(files) = Cardinality(DistinctContents)
  /\ \A c \in contents, d \in contents :
       c[2] = d[2] =>
         \A e \in root_dir, f \in root_dir :
           e.path = c[1] /\ f.path = d[1] => e.offset = f.offset

\* C29: current_offset is the total length of files; the range of every
\* VirtualFile in the concatenation of files holds the data the file was
\* added with; and read_to_string on the path of a file returns that data.
C29_ReadReturnsWhatWasAdded ==
  /\ current_offset = Len(Concat(files))
  /\ \A c \in contents :
       \E e \in root_dir :
         /\ e.path = c[1] /\ e.kind = "File" /\ e.len = Len(c[2])
         /\ e.offset + e.len <= Len(Concat(files))
         /\ SubSeq(Concat(files), e.offset + 1, e.offset + e.len) = c[2]
  /\ vfs_file.some => vfs_file.bytes = Concat(files)
  /\ ext = "vfs" /\ fs_ret.op = "read_to_string" =>
       \A c \in contents :
         c[1] = fs_ret.path => fs_ret.err = "none" /\ fs_ret.bytes = c[2]

\* Three files were added, the data of the first again as the third, and
\* the second, which starts after the first in the backing file, was read.
C29_Witness ==
  /\ ext = "vfs"
  /\ files = << <<0>>, <<1>> >>
  /\ Cardinality(contents) = 3
  /\ fs_ret.op = "read_to_string" /\ fs_ret.bytes = <<1>>
  /\ \E e \in root_dir : e.path = fs_ret.path /\ e.offset = 1


\* The number of symlinks that a walk which ends follows at most.
MaxHops == 2 * Cardinality(Paths)

\* Where a path leads when every symlink on it is followed: the components
\* in `rest` are walked from the directory at `dir`, and a symlink is
\* replaced by its target, which is walked from the root.
RECURSIVE Follow(_, _, _)
Follow(rest, dir, hops) ==
  IF rest = <<>>
  THEN [ok |-> TRUE, path |-> dir,
        entry |-> IF dir = <<>> THEN RootEntry
                  ELSE binary_search(parent(dir), dir[Len(dir)])]
  ELSE LET e == binary_search(dir, Head(rest)) IN
       CASE e.kind = "Dir" -> Follow(Tail(rest), e.path, hops)
         [] e.kind = "Symlink" /\ hops > 0 ->
              Follow(e.dest_parts \o Tail(rest), <<>>, hops - 1)
         [] e.kind = "File" /\ Tail(rest) = <<>> ->
              [ok |-> TRUE, path |-> e.path, entry |-> e]
         [] OTHER -> [ok |-> FALSE, path |-> <<>>, entry |-> NoEntry]

\* The target of a path: the entry it leads to, which is no symlink.
Target(path) == Follow(path, <<>>, MaxHops)

\* The entry a path names when its last component is not followed.
FinalEntry(path) ==
  LET d == Target(parent(path)) IN
  IF d.ok /\ d.entry.kind = "Dir"
  THEN binary_search(d.path, path[Len(path)])
  ELSE NoEntry

\* C30: symlink_metadata reports the entry that the path names, a symlink
\* as a symlink; metadata, read_to_string and canonicalize act on the
\* target of the path whenever the path has one, also through a symlinked
\* directory: metadata reports the target, read_to_string returns the data
\* of a target that is a file, and canonicalize returns the path of the
\* target, in which no component is a symlink.
C30_LookupsFollowSymlinks ==
  LET t == Target(fs_ret.path)
      f == FinalEntry(fs_ret.path)
  IN
  /\ (fs_ret.op = "symlink_metadata" /\ f # NoEntry) =>
       (fs_ret.err = "none" /\ fs_ret.kind = f.kind)
  /\ (fs_ret.op = "metadata" /\ t.ok) =>
       (fs_ret.err = "none" /\ fs_ret.kind = t.entry.kind)
  /\ (fs_ret.op = "canonicalize" /\ t.ok) =>
       /\ fs_ret.err = "none"
       /\ fs_ret.resolved = t.path
       /\ \A e \in root_dir :
            (\E k \in 1 .. Len(t.path) : e.path = SubSeq(t.path, 1, k)) =>
              e.kind # "Symlink"
  /\ (ext = "symlinks" /\ fs_ret.op = "read_to_string" /\ t.ok
        /\ t.entry.kind = "File") =>
       (fs_ret.err = "none" /\ <<t.path, fs_ret.bytes>> \in contents)


\* C32: every lookup in the virtual file system ends: find_entry and
\* find_entry_no_follow return an entry or an error for every tree and
\* every path, and no call of find_entry_inner is made again with the
\* arguments of a call that has not returned.
C32_LookupTerminates == fs_ret.err # "unbounded recursion"


\* The names of a directory are strictly sorted.
Sorted(names) ==
  \A i \in 1 .. (Len(names) - 1) : cmp(names[i], names[i + 1]) = "Less"

\* The names of the entries that were added to the directory at path dir.
NamesIn(dir) ==
  {e.path[Len(e.path)] : e \in {f \in root_dir : parent(f.path) = dir}}

\* C33: after any add_dir, add_file and add_symlink calls the entries of
\* every VirtualDirectory are strictly sorted by name and hold each name
\* that was added once (add_dir of a directory that exists inserts
\* nothing), and the binary search finds every entry that was added.
C33_EntriesSortedAndFound ==
  /\ DOMAIN entries =
       {<<>>} \cup {e.path : e \in {f \in root_dir : f.kind = "Dir"}}
  /\ \A dir \in DOMAIN entries :
       /\ Sorted(entries[dir])
       /\ Len(entries[dir]) = Cardinality(NamesIn(dir))
       /\ {entries[dir][i] : i \in 1 .. Len(entries[dir])} = NamesIn(dir)
  /\ \A e \in root_dir :
       binary_search(parent(e.path), e.path[Len(e.path)]) = e

C33_Witness ==
  /\ ext = "dirs"
  /\ entries[<<>>] = <<"a", "b", "c">>
  /\ <<"b">> \in DOMAIN entries /\ entries[<<"b">>] = <<"x", "y">>
  /\ \E e \in root_dir : e.path = <<"b", "x">> /\ e.kind = "Symlink"
  /\ \E e \in root_dir : e.path = <<"c">> /\ e.kind = "File"


\* C34: op_command_child_status never finds the cell of the child borrowed:
\* the cell of every child that get finds in resource_table is free, in
\* every interleaving of spawn, status, wait and output, so the fail-fast
\* borrow of a status call succeeds and its unwrap does not panic.
C34_StatusBorrowSucceeds ==
  /\ \A e \in resource_table :
       e.kind = "child" => CellIsFree(cell[<<1, e.rid>>])
  /\ sync_ret.op = "op_command_child_status" => sync_ret.res # "panic"

\* C34 witness: a status call found its child while the wait of another
\* call, which took its own child, holds the cell of that one.
C34_Witness ==
  /\ sync_ret.op = "op_command_child_status" /\ sync_ret.res = "Ok"
  /\ \E o \in Ops : ops[o].kind = "wait" /\ ops[o].pc = "child_waiting"
                      /\ ~CellIsFree(cell[ops[o].key])


\* C35: op_command_child_output holds the only reference to the child and
\* to the stdout and stderr resources that it takes, whatever reads, status
\* and wait calls are under way, so that its unwraps do not panic and the
\* call returns an output or an error.
C35_OutputOwnsWhatItTakes ==
  \A o \in Ops : ops[o].kind = "output" => ops[o].res # "panic"


\* C36: the resource table that a plugin sees is transparent: get_boxed,
\* get_mut_boxed and remove_boxed of the id of a resource added through
\* PluginResourceTable::add give that resource itself, not the RefResource
\* around it, and those of the id of any other resource give it unchanged;
\* remove_boxed ends the registration; has and entries are those of the
\* underlying table.
C36_PluginViewIsTransparent ==
  [][view_ret' # view_ret =>
       LET call == view_ret' IN
       /\ call.f \in {"get_boxed", "get_mut_boxed", "remove_boxed"} =>
            call.res =
              CASE call.was = "none" -> None
                [] call.was = "RefResource" -> Inner(call.rid)
                [] OTHER -> [type |-> call.was, rid |-> call.rid]
       /\ call.f \in {"get_boxed", "get_mut_boxed", "has", "entries"} =>
            resource_table' = resource_table
       /\ call.f = "remove_boxed" =>
            resource_table' = ResourceTable_remove(resource_table, call.rid)
       /\ call.f = "has" =>
            call.has = ResourceTable_has(resource_table, call.rid)
       /\ call.f = "entries" =>
            call.entries = resource_table]_vars


\* C37: whenever a PluginOpAsyncFuture is dropped, completed or abandoned
\* while pending, the wrapped future of the plugin is destroyed first and
\* the share of the library handle that accompanies it is released
\* afterwards.
C37_FutureDroppedBeforeShare ==
  \A i \in 1 .. Len(drop_log) :
    drop_log[i][1] = "_plugin_lib" =>
      \E j \in 1 .. (i - 1) : drop_log[j] = <<"fut", drop_log[i][2]>>

\* C37 witness: the future of call 1 was abandoned while pending, after the
\* resource id of its plugin had been closed.
C37_Witness ==
  /\ ops[1].kind = "plugin_op" /\ ops[1].res = "Abandoned"
  /\ drop_log = << <<"fut", 1>>, <<"_plugin_lib", 1>> >>
  /\ ~ResourceTable_has(resource_table, 0)


\* The works that were sent and have not been run: in the channel, on
\* pending_async_work or popped for the turn under way.
Waiting ==
  {async_work_channel[k] : k \in 1 .. Len(async_work_channel)}
    \cup {pending_async_work[k] : k \in 1 .. Len(pending_async_work)}
    \cup (IF middleware.pc = "work" THEN {middleware.work} ELSE {})

\* The state part of C38.
MiddlewareRunsWorkOnce ==
  /\ \A i \in 1 .. Len(executed) :
       executed[i] = (IF i \in Waiting THEN 0 ELSE 1)
  /\ middleware.pc = "idle" => pending_async_work = <<>>
  /\ middleware.pc = "work" => op_state = 0
  /\ middleware.pc # "already_borrowed"
  /\ (middleware_ret.some /\ (middleware_ret.ran > 0 \/ middleware_ret.seen))
       => middleware_ret.v

\* C38: every work sent through the async-work channel is run exactly once
\* by the middleware (never twice, and run in the end unless the runtime
\* panicked), no borrow of the OpState is held while a work runs, so that
\* it may call back into the runtime or queue further work, and a call of
\* the middleware that ran a work or saw active_threadsafe_functions > 0
\* returns true.
C38_WorkRunsOnceUnborrowed ==
  /\ []MiddlewareRunsWorkOnce
  /\ \A i \in 1 .. MaxWork :
       (Len(executed) >= i)
         ~> (panicked \/ (Len(executed) >= i /\ executed[i] = 1))

\* C38 witness: the middleware returned true after running a work, three
\* works were sent and each has been run once.
C38_Witness ==
  /\ Len(executed) = MaxWork
  /\ \A i \in 1 .. MaxWork : executed[i] = 1
  /\ middleware.pc = "idle"
  /\ middleware_ret.some /\ middleware_ret.v /\ middleware_ret.ran > 0
  /\ ~middleware_ret.seen

\* C39: active_threadsafe_functions is the number of Alive notifications
\* processed minus the number of Dead notifications processed and never
\* goes below zero, in whatever order the notifications arrive.
C39_CountIsAliveMinusDead ==
  /\ ~active_threadsafe_functions.top
  /\ active_threadsafe_functions.n = processed.alive - processed.dead
  /\ middleware.pc # "overflow"


\* The (name, handler) pairs behind the first n entries of the registry:
\* the name bound and the declared op the op function was made from.
Pairs(reg, n) ==
  [i \in 1 .. (Len(reg) - n) |-> <<reg[n + i].name, reg[n + i].op_fn.orig>>]

\* A call of init_ops on extension e: its first call with ops declared
\* registers each declared pair, in the order of the declaration; any other
\* call registers nothing.
InitOpsRegistersOnce(e) ==
  IF extensions[e].ops.some /\ ~extensions[e].taken
  THEN /\ Len(registry') = Len(registry) + Len(extensions[e].ops.v)
       /\ SubSeq(registry', 1, Len(registry)) = registry
       /\ Pairs(registry', Len(registry)) =
            [k \in 1 .. Len(extensions[e].ops.v) |->
               <<extensions[e].ops.v[k], extensions[e].ops.v[k]>>]
  ELSE registry' = registry

\* C40: however often init_ops is called on an Extension (BasicModule's
\* init_ops is the same code), each declared (name, handler) pair is
\* registered once in total, in declaration order: the first call registers
\* all of them, every later call nothing; and init_registrar wraps the
\* registrar with the middleware of the extension on its first call only.
C40_InitRegistersOnce ==
  /\ [](/\ \A i, j \in 1 .. Len(registry) :
             registry[i].name = registry[j].name => i = j
        /\ \A i, j \in 1 .. Len(registrar) :
             registrar[i] = registrar[j] => i = j)
  /\ [][/\ \A e \in Extensions :
             (init_ret'.ext = e
                /\ (init_ret' # init_ret
                      \/ extensions'[e].ops # extensions[e].ops))
               => InitOpsRegistersOnce(e)
        /\ registry' # registry =>
             (init_ret'.ext # 0 /\ ~init_ret'.again)
        /\ registrar' # registrar =>
             \E e \in Extensions :
               /\ ~extensions[e].wrapped
               /\ extensions[e].middleware_fn
               /\ registrar' = Append(registrar, e)]_vars

\* C40 witness: init_ops was called again on extension 1, whose two ops
\* are registered once each behind the one middleware layer, its own.
C40_Witness ==
  /\ init_ret.again /\ init_ret.ext = 1 /\ init_ret.added = 0
  /\ registrar = <<1>>
  /\ Len(registry) = 2
  /\ Pairs(registry, 0) = [k \in 1 .. 2 |-> <<OpName(1, k), OpName(1, k)>>]


\* The fenced blocks of a text from line i on, each <<line of the opening
\* fence, line of the closing fence>>: the text is read from left to right,
\* a block ends at the first fence after the one that opens it, and where
\* HTML comments are recognised what lies between "<!--" and the next "-->"
\* holds no block.
RECURSIVE Blocks(_, _, _)
Blocks(lines, i, html) ==
  IF i > Len(lines) THEN {}
  ELSE LET ends == {j \in (i + 1) .. Len(lines) :
                      IF lines[i].fence THEN lines[j].fence
                      ELSE ~lines[j].fence /\ lines[j].text = "-->"}
           opens == lines[i].fence \/ (html /\ lines[i].text = "<!--")
       IN  IF opens /\ ends # {}
           THEN LET j == CHOOSE e \in ends : \A k \in ends : e <= k IN
                (IF lines[i].fence THEN {<<i, j>>} ELSE {})
                  \cup Blocks(lines, j + 1, html)
           ELSE Blocks(lines, i + 1, html)

\* The tags that map to a media type.
KnownTags == {"js", "javascript", "mjs", "cjs", "jsx", "ts", "typescript",
              "mts", "cts", "tsx"}

\* The block has a known tag and no attribute ignore.
Tested(lines, b) ==
  LET attributes == lines[b[1]].attributes IN
  /\ attributes[1] \in KnownTags
  /\ \A k \in 1 .. Len(attributes) : attributes[k] # "ignore"

HasStar(line) == line.star

\* The lines of the body of a block; in a doc comment, where stars is
\* set, only the lines that carry the "*" of the comment count.
BodyOf(lines, b, stars) ==
  LET body == SubSeq(lines, b[1] + 1, b[2] - 1)
      kept == IF stars THEN SelectSeq(body, HasStar) ELSE body
  IN  [k \in 1 .. Len(kept) |-> kept[k].text]

\* The k-th of a set of blocks, in the order of the text.
Nth(blocks, k) ==
  CHOOSE b \in blocks : Cardinality({c \in blocks : c[1] < b[1]}) = k - 1

\* File f is the pseudo test file of block b: its name is the specifier of
\* the base file, "$", the line of the opening fence, "-", the line after
\* the closing fence and the extension of the media type of the tag; its
\* source is the imports of the block, one import of the exports of the
\* base file if it has any, and one Deno.test of that name around the
\* statements of the block, in their order.
IsTestOf(f, lines, b, stars) ==
  LET tag == lines[b[1]].attributes[1]
      body == BodyOf(lines, b, stars)
      imports == SelectSeq(body, is_import)
      exports == doc_file.default_export \o doc_file.named_exports
      n == Len(imports)
  IN  /\ f.specifier = [base |-> doc_file.specifier,
                        first |-> doc_file.line_index + b[1],
                        last |-> doc_file.line_index + b[2] + 1,
                        ext |-> mapped_specifier_for_tsc(MediaType_of(tag))]
      /\ f.media_type = MediaType_of(tag)
      /\ Len(f.source) = n + (IF exports # <<>> THEN 1 ELSE 0) + 1
      /\ \A k \in 1 .. n :
           f.source[k].item = "ModuleDecl" /\ f.source[k].text = imports[k]
      /\ exports # <<>> =>
           /\ f.source[n + 1].item = "ImportDecl"
           /\ f.source[n + 1].specifiers = exports
           /\ f.source[n + 1].src = doc_file.specifier
      /\ f.source[Len(f.source)].item = "Deno.test"
      /\ f.source[Len(f.source)].test_name = f.specifier
      /\ f.source[Len(f.source)].stmts = SelectSeq(body, is_stmt)

\* The files returned are the pseudo test files of the tested blocks of
\* the text, one each, in the order of the text.
OneTestPerBlock(html, stars) ==
  LET lines == doc_file.lines
      scanned == doc_file.media_type = "Unknown" \/ lines[1].star
      tested == IF scanned
                THEN {b \in Blocks(lines, 1, html) : Tested(lines, b)}
                ELSE {}
  IN  /\ Len(doc_ret.files) = Cardinality(tested)
      /\ \A k \in 1 .. Len(doc_ret.files) :
           IsTestOf(doc_ret.files[k], lines, Nth(tested, k), stars)

====
